---- MODULE Spec2Model ----
(***************************************************************************)
(* Desktop dashboard widget (src/src/App.tsx, Electron main in             *)
(* src/start.bat): the state controller of one window (todos, agenda,      *)
(* city preference), its persistence through localStorage, the module      *)
(* resolver and the view composition.                                      *)
(*                                                                         *)
(* A window is a React component.  An event handler queues state updates,  *)
(* React renders them, and the useEffect callbacks whose dependencies      *)
(* changed run after the render.  One action of the model is one handler   *)
(* together with the render it causes; the effects of that render are the  *)
(* next step of the window (RunEffects), and nothing else of that window   *)
(* runs in between.                                                        *)
(***************************************************************************)
EXTENDS Integers, Sequences, FiniteSets, Bags, TLC

(***************************************************************************)
(* Bounds of the model.                                                    *)
(***************************************************************************)
MaxIds == 2        \* calls of createId in one run
MaxClock == 1      \* last millisecond of the clock (Date.now) in one run
MaxLen == 3        \* longest todo or agenda list a run builds
MaxWmoCode == 100  \* largest weather code below 999 that is mapped
MaxFetches == 1    \* calls of fetchWeather(city) by the effect in flight at once

(***************************************************************************)
(* JSON values, as JavaScript holds them: null, booleans, strings, arrays  *)
(* and objects (keys in insertion order).                                  *)
(***************************************************************************)
JNull == [t |-> "null"]
JBool(b) == [t |-> "bool", b |-> b]
JStr(s) == [t |-> "str", s |-> s]
JNum(n) == [t |-> "num", n |-> n]
JArr(items) == [t |-> "arr", a |-> items]
JObj(keys, vals) == [t |-> "obj", k |-> keys, v |-> vals]

IsArr(v) == v.t = "arr"
IsStr(v) == v.t = "str"

\* obj[key]; JNull stands for undefined when the key is missing.
RECURSIVE FieldFrom(_, _, _)
FieldFrom(obj, key, i) ==
  IF i > Len(obj.k) THEN JNull
  ELSE IF obj.k[i] = key THEN obj.v[i]
  ELSE FieldFrom(obj, key, i + 1)

Field(obj, key) == FieldFrom(obj, key, 1)

\* { ...obj, key: val }: the key keeps its place, or is added last.
WithField(obj, key, val) ==
  IF \E i \in 1..Len(obj.k) : obj.k[i] = key
  THEN JObj(obj.k, [i \in 1..Len(obj.k) |-> IF obj.k[i] = key THEN val ELSE obj.v[i]])
  ELSE JObj(Append(obj.k, key), Append(obj.v, val))

\* !x of a JSON value (false, null, undefined and '' are falsy).
Falsy(v) ==
  \/ v.t = "null"
  \/ v.t = "bool" /\ ~v.b
  \/ v.t = "str" /\ v.s = ""
  \/ v.t = "num" /\ v.n = 0

(***************************************************************************)
(* JSON text is a sequence of tokens: punctuation, string literals and     *)
(* bare words (true, false, null, or anything else, which no JSON value    *)
(* starts with).                                                           *)
(***************************************************************************)
P(c) == [k |-> "p", v |-> c]
S(x) == [k |-> "s", v |-> x]
W(x) == [k |-> "w", v |-> x]
N(n) == [k |-> "n", v |-> n]

RECURSIVE Stringify(_)
RECURSIVE StringifyItems(_, _)
RECURSIVE StringifyMembers(_, _)

\* JSON.stringify(v)
Stringify(v) ==
  CASE v.t = "null" -> <<W("null")>>
    [] v.t = "bool" -> <<W(IF v.b THEN "true" ELSE "false")>>
    [] v.t = "str" -> <<S(v.s)>>
    [] v.t = "num" -> <<N(v.n)>>
    [] v.t = "arr" -> <<P("[")>> \o StringifyItems(v.a, 1) \o <<P("]")>>
    [] v.t = "obj" -> <<P("{")>> \o StringifyMembers(v, 1) \o <<P("}")>>

StringifyItems(items, i) ==
  IF i > Len(items) THEN <<>>
  ELSE (IF i > 1 THEN <<P(",")>> ELSE <<>>)
       \o Stringify(items[i]) \o StringifyItems(items, i + 1)

StringifyMembers(obj, i) ==
  IF i > Len(obj.k) THEN <<>>
  ELSE (IF i > 1 THEN <<P(",")>> ELSE <<>>)
       \o <<S(obj.k[i]), P(":")>> \o Stringify(obj.v[i])
       \o StringifyMembers(obj, i + 1)

ParseFail == [ok |-> FALSE, v |-> JNull, next |-> 0]
ParseOk(v, next) == [ok |-> TRUE, v |-> v, next |-> next]

IsTok(text, i, tok) == i <= Len(text) /\ text[i] = tok

RECURSIVE ParseValue(_, _)
RECURSIVE ParseItems(_, _, _)
RECURSIVE ParseMembers(_, _, _, _)

\* One JSON value of text starting at token i; next is the token after it.
ParseValue(text, i) ==
  IF i > Len(text) THEN ParseFail
  ELSE LET tok == text[i] IN
    CASE tok.k = "s" -> ParseOk(JStr(tok.v), i + 1)
      [] tok.k = "n" -> ParseOk(JNum(tok.v), i + 1)
      [] tok = W("null") -> ParseOk(JNull, i + 1)
      [] tok = W("true") -> ParseOk(JBool(TRUE), i + 1)
      [] tok = W("false") -> ParseOk(JBool(FALSE), i + 1)
      [] tok = P("[") ->
           IF IsTok(text, i + 1, P("]")) THEN ParseOk(JArr(<<>>), i + 2)
           ELSE ParseItems(text, i + 1, <<>>)
      [] tok = P("{") ->
           IF IsTok(text, i + 1, P("}")) THEN ParseOk(JObj(<<>>, <<>>), i + 2)
           ELSE ParseMembers(text, i + 1, <<>>, <<>>)
      [] OTHER -> ParseFail

\* The items of an array from token i, after the items acc.
ParseItems(text, i, acc) ==
  LET item == ParseValue(text, i) IN
  IF ~item.ok THEN ParseFail
  ELSE IF IsTok(text, item.next, P("]"))
       THEN ParseOk(JArr(Append(acc, item.v)), item.next + 1)
  ELSE IF IsTok(text, item.next, P(","))
       THEN ParseItems(text, item.next + 1, Append(acc, item.v))
  ELSE ParseFail

\* The members of an object from token i, after the members keys/vals.
ParseMembers(text, i, keys, vals) ==
  IF ~(i + 1 <= Len(text) /\ text[i].k = "s" /\ text[i + 1] = P(":"))
  THEN ParseFail
  ELSE LET val == ParseValue(text, i + 2) IN
    IF ~val.ok THEN ParseFail
    ELSE IF IsTok(text, val.next, P("}"))
         THEN ParseOk(JObj(Append(keys, text[i].v), Append(vals, val.v)), val.next + 1)
    ELSE IF IsTok(text, val.next, P(","))
         THEN ParseMembers(text, val.next + 1, Append(keys, text[i].v), Append(vals, val.v))
    ELSE ParseFail

\* JSON.parse(text): a value, or a SyntaxError (ok = FALSE) when the text is
\* not exactly one JSON value.
JsonParse(text) ==
  LET r == ParseValue(text, 1) IN
  IF r.ok /\ r.next = Len(text) + 1 THEN r ELSE ParseFail

(***************************************************************************)
(* parseJsonLenient, on the text of a network reply.  The text may hold    *)
(* white space between its tokens; its string literals hold no bracket.    *)
(***************************************************************************)
Space == [k |-> "ws", v |-> " "]

\* text.trim(): the text without its leading and trailing white space.
RECURSIVE TrimStart(_)
TrimStart(text) ==
  IF text # <<>> /\ Head(text) = Space THEN TrimStart(Tail(text)) ELSE text

RECURSIVE TrimEnd(_)
TrimEnd(text) ==
  IF text # <<>> /\ text[Len(text)] = Space
  THEN TrimEnd(SubSeq(text, 1, Len(text) - 1)) ELSE text

TrimText(text) == TrimEnd(TrimStart(text))

\* JSON.parse of a text with white space, which JSON allows between tokens.
JsonParseText(text) == JsonParse(SelectSeq(text, LAMBDA tok : tok # Space))

\* text.indexOf(c) and text.lastIndexOf(c); positions are counted from 0
\* as in the code, and -1 stands for no occurrence.
indexOf(text, tok) ==
  IF \E i \in DOMAIN text : text[i] = tok
  THEN (CHOOSE i \in DOMAIN text :
          text[i] = tok /\ \A j \in 1..(i - 1) : text[j] # tok) - 1
  ELSE 0 - 1

lastIndexOf(text, tok) ==
  IF \E i \in DOMAIN text : text[i] = tok
  THEN (CHOOSE i \in DOMAIN text :
          text[i] = tok /\ \A j \in (i + 1)..Len(text) : text[j] # tok) - 1
  ELSE 0 - 1

\* Math.min(...candidates) and Math.max(...candidates) of the values >= 0
\* of a and b, or -1 when there is none.
minFound(a, b) ==
  IF a >= 0 /\ b >= 0 THEN (IF a < b THEN a ELSE b)
  ELSE IF a >= 0 THEN a ELSE IF b >= 0 THEN b ELSE 0 - 1

maxFound(a, b) ==
  IF a >= 0 /\ b >= 0 THEN (IF a > b THEN a ELSE b)
  ELSE IF a >= 0 THEN a ELSE IF b >= 0 THEN b ELSE 0 - 1

\* What parseJsonLenient returns (ok) or that it throws.
Decoded(v) == [t |-> "decoded", ok |-> TRUE, v |-> v]
InvalidJson == [t |-> "decoded", ok |-> FALSE, v |-> JNull]

\* The end of the span taken as the first closing bracket of sliced.
spanEndFirst(sliced) == minFound(indexOf(sliced, P("}")), indexOf(sliced, P("]")))

\* end: the last '}' or ']' of sliced.
spanEnd(sliced) ==
  maxFound(lastIndexOf(sliced, P("}")), lastIndexOf(sliced, P("]")))

parseJsonLenient(raw) ==
  LET text == TrimText(raw)
      strict == JsonParseText(text)
      start == minFound(indexOf(text, P("{")), indexOf(text, P("[")))
      sliced == SubSeq(text, start + 1, Len(text))
      end == spanEnd(sliced)
      again == JsonParseText(SubSeq(sliced, 1, end + 1))
  IN IF strict.ok THEN Decoded(strict.v)
     ELSE IF start < 0 THEN InvalidJson
     ELSE IF end < 0 THEN InvalidJson
     ELSE IF again.ok THEN Decoded(again.v) ELSE InvalidJson

(***************************************************************************)
(* The Persistent Store: localStorage, one entry per key, shared by all    *)
(* windows.  getItem gives null for a key never written.                   *)
(***************************************************************************)
storageKeys == {"todos", "agenda", "city", "cityMode"}

NoItem == [present |-> FALSE, text |-> <<>>]
Item(text) == [present |-> TRUE, text |-> text]

\* A faulty loadStorage: the entry is not read.
loadStorageFallbackOnly(raw, fallback) == fallback

\* loadStorage(key, fallback) on the entry raw = localStorage.getItem(key).
loadStorage(raw, fallback) ==
  IF ~raw.present \/ raw.text = <<>> THEN fallback
  ELSE LET r == JsonParse(raw.text) IN
       IF r.ok THEN r.v ELSE fallback

\* A faulty saveStorage: a string is stored as it is, without JSON.stringify.
saveStorageRaw(value) ==
  IF IsStr(value) THEN Item(<<W(value.s)>>) ELSE Item(Stringify(value))

\* saveStorage(key, value): the entry localStorage.setItem leaves under key.
saveStorage(value) == Item(Stringify(value))

(***************************************************************************)
(* Strings.  The Chinese literals of the source are written in pinyin with *)
(* the prefix zh: (the module's strings are ASCII).                        *)
(***************************************************************************)
DefaultCity == "zh:shanghai"        \* '上海'
DefaultPriority == "zh:zhong"       \* '中'
HighPriority == "zh:gao"            \* '高'
PendingLocation == "zh:daiding"     \* '待定'

\* s.trim(), on the texts the model types in.
Trim(s) ==
  CASE s = " " -> ""
    [] s = " zh:beijing " -> "zh:beijing"
    [] OTHER -> s

(***************************************************************************)
(* State.  Every window has its own copy of the React state; the store,    *)
(* the clock and the UUID source are shared.                               *)
(***************************************************************************)
Wins == {1, 2}

VARIABLES
  store,          \* localStorage: storage key -> entry
  clock,          \* Date.now(), in milliseconds
  hasRandomUUID,  \* whether crypto.randomUUID exists in this environment
  idCount,        \* calls of createId so far
  running,        \* running[w]: window w is open and mounted
  query,          \* query[w]: URLSearchParams of the window's launch URL
  pending,        \* pending[w]: storage keys whose save effect has yet to run
  city,           \* useState city
  cityMode,       \* useState cityMode
  isEditingCity,  \* useState isEditingCity
  todos,          \* useState todos
  todoForm,       \* useState todoForm
  agenda,         \* useState agenda
  agendaForm,     \* useState agendaForm
  activePanel,    \* useState activePanel
  lastOp,         \* lastOp[w]: the operation window w has just handled (history)
  weather,        \* useState weather
  weatherStatus,  \* useState weatherStatus
  isLocating,     \* useState isLocating
  autoLocateOnceRef,  \* useRef autoLocateOnceRef
  fetches,        \* fetches[w]: the calls of fetchWeather(city) in flight
  locating,       \* locating[w]: the call of locateWeather in flight, if any
  resolved,       \* resolved[w]: how the last fetchWeather ended (history)
  located,        \* located[w]: how the last locateWeather ended (history)
  autoLocates,    \* autoLocates[w]: locateWeather calls of the effect (history)
  wmoCode,        \* an argument of mapWmoToWeather
  wmoWeather,     \* what mapWmoToWeather returned for it
  rawText,        \* an argument of parseJsonLenient
  decoded,        \* what parseJsonLenient returned or threw for it
  weatherDesc,    \* a weatherDesc[0].value of the text report
  classified      \* the condition text and icon it was classified as

shared == <<store, clock, hasRandomUUID, idCount>>
cityVars == <<city, cityMode, isEditingCity>>
todoVars == <<todos, todoForm>>
agendaVars == <<agenda, agendaForm>>
weatherVars == <<weather, weatherStatus, isLocating, autoLocateOnceRef,
                 fetches, locating, resolved, located, autoLocates>>
wmoVars == <<wmoCode, wmoWeather>>
decoderVars == <<rawText, decoded>>
descVars == <<weatherDesc, classified>>
pureVars == <<wmoVars, decoderVars, descVars>>
providerVars == <<weatherVars, pureVars>>
weatherKept == <<weather, weatherStatus, isLocating, autoLocateOnceRef,
                 fetches, locating, autoLocates>>
vars == <<store, clock, hasRandomUUID, idCount, running, query, pending,
          city, cityMode, isEditingCity, todos, todoForm, agenda, agendaForm,
          activePanel, lastOp, weather, weatherStatus, isLocating,
          autoLocateOnceRef, fetches, locating, resolved, located, autoLocates,
          wmoCode, wmoWeather, rawText, decoded, weatherDesc, classified>>

(***************************************************************************)
(* Launch parameters and the module resolver.                              *)
(***************************************************************************)
\* JavaScript's null where the model holds a string: what
\* URLSearchParams.get gives for a parameter the URL does not carry, and the
\* activePanel of a closed overlay.
QNull == "<null>"

ModuleNames == {"time", "weather", "todo", "agenda"}

\* Electron main: the module of a window's URL, or null.
getModuleFromUrl(q) ==
  IF q.module \in ModuleNames THEN q.module ELSE QNull

\* A faulty set: the parameter is set only where the URL carries none.
openModuleUrlIfAbsent(q, module) ==
  [q EXCEPT !.desktop = "1",
            !.module = IF q.module = QNull THEN module ELSE q.module]

\* App openModuleWindow: the URL of the window, with desktop and module
\* set (searchParams.set replaces what the URL carries).
openModuleUrl(q, module) == [q EXCEPT !.desktop = "1", !.module = module]

\* Electron main: desktop=1 is added to a URL that carries no desktop
\* parameter.
appendDesktopQuery(q) ==
  IF q.desktop = QNull THEN [q EXCEPT !.desktop = "1"] ELSE q

\* The URL the new window loads: in a browser the one window.open is
\* given, and in the desktop shell, whose window-open handler denies the
\* popup and calls createWindow({ targetUrl: url }), that URL through
\* appendDesktopQuery.
launchUrls(q, module) ==
  {openModuleUrl(q, module), appendDesktopQuery(openModuleUrl(q, module))}

\* The sections that carry the split button of a module: its card, and for
\* the two lists the header of the peek list.
splitButtons(module) ==
  IF module = "time" THEN {"timeCard"}
  ELSE IF module = "weather" THEN {"weatherCard"}
  ELSE IF module = "todo" THEN {"todoCard", "todoPeek"}
  ELSE {"agendaCard", "agendaPeek"}

\* App: const desktopMode = query.get('desktop') === '1'
desktopMode(w) == query[w].desktop = "1"

\* App: const moduleView = query.get('module') as null | 'time' | ...
moduleView(w) == query[w].module

\* A JavaScript condition on moduleView: null and '' are falsy.
Truthy(m) == m # QNull /\ m # ""

(***************************************************************************)
(* The view composition: the sections App renders.                         *)
(***************************************************************************)
heroSections(m) ==
  IF m = "time" THEN {"timeCard"}
  ELSE IF m = "weather" THEN {"weatherCard"}
  ELSE {"timeCard", "weatherCard", "summaryCard"}

belowHero(m, desktop, panel) ==
  IF desktop /\ ~Truthy(m)
  THEN {"todoPeek", "agendaPeek", "dock"}
       \cup (IF panel = "todo" THEN {"overlay", "todoCard"}
             ELSE IF panel = "agenda" THEN {"overlay", "agendaCard"}
             ELSE {})
  ELSE IF ~desktop /\ ~Truthy(m) THEN {"todoCard", "agendaCard"}
  ELSE {}

Composition(m, desktop, panel) ==
  IF m = "todo" THEN {"todoCard"}
  ELSE IF m = "agenda" THEN {"agendaCard"}
  ELSE heroSections(m) \cup belowHero(m, desktop, panel)

\* The cards that carry the close-window button, which each of the four
\* module cards renders when moduleView is truthy.
closeButtons(m, desktop, panel) ==
  IF Truthy(m)
  THEN Composition(m, desktop, panel)
       \cap {"timeCard", "weatherCard", "todoCard", "agendaCard"}
  ELSE {}

\* The render throws a TypeError, and React takes the whole tree down, when
\* todos is no array (todos.filter), when agenda is null (agenda.length) or a
\* string with characters (agenda.map), and when city is an object (no React
\* child).
renderThrowsOn(todosValue, agendaValue, cityValue) ==
  \/ ~IsArr(todosValue)
  \/ agendaValue.t = "null"
  \/ agendaValue.t = "str" /\ agendaValue.s # ""
  \/ cityValue.t = "obj"

renderThrows(w) == renderThrowsOn(todos[w], agenda[w], city[w])

Visible(w) ==
  IF running[w] /\ renderThrows(w) THEN {}
  ELSE Composition(moduleView(w), desktopMode(w), activePanel[w])

\* Array.prototype.slice(-k): the last k items, or all of fewer.
sliceLast(seq, k) ==
  IF Len(seq) <= k THEN seq ELSE SubSeq(seq, Len(seq) - k + 1, Len(seq))

\* Array.prototype.reverse.
reverse(seq) == [i \in 1..Len(seq) |-> seq[Len(seq) + 1 - i]]

\* A faulty peek list: the first two items.
peekListFirstTwo(list) ==
  IF Len(list.a) = 0 THEN <<>>
  ELSE reverse(SubSeq(list.a, 1, IF Len(list.a) < 2 THEN Len(list.a) ELSE 2))

\* The rows of a peek list: list.length ? [...list].slice(-2).reverse() : []
peekList(list) ==
  IF Len(list.a) = 0 THEN <<>> ELSE reverse(sliceLast(list.a, 2))

\* The rows the two peek lists of window w show.
todoPeekRows(w) == IF "todoPeek" \in Visible(w) THEN peekList(todos[w]) ELSE <<>>
agendaPeekRows(w) == IF "agendaPeek" \in Visible(w) THEN peekList(agenda[w]) ELSE <<>>

(***************************************************************************)
(* Items, and the id of a new item.                                        *)
(***************************************************************************)
TodoItem(id, title, time, priority, done) ==
  JObj(<<"id", "title", "time", "priority", "done">>,
       <<JStr(id), JStr(title), JStr(time), JStr(priority), JBool(done)>>)

AgendaItem(id, title, time, location) ==
  JObj(<<"id", "title", "time", "location">>,
       <<JStr(id), JStr(title), JStr(time), JStr(location)>>)

\* createId(): a UUID where crypto.randomUUID exists (a fresh one each call),
\* and otherwise the clock's milliseconds as a string.
createId ==
  IF hasRandomUUID THEN "uuid-" \o ToString(idCount + 1) ELSE ToString(clock)

\* What a call of createId leaves behind.
createIdDone ==
  /\ idCount' = idCount + 1
  /\ UNCHANGED <<clock, hasRandomUUID>>

\* A run calls createId at most MaxIds times.
CanCreateId == idCount < MaxIds

Ids(list) ==
  IF IsArr(list) THEN {Field(list.a[i], "id").s : i \in 1..Len(list.a)} ELSE {}

\* The ids a handler is called with: those of the list, and one of no item.
IdArgs(list) == Ids(list) \cup {"no-such-id"}

(***************************************************************************)
(* The initial store: what earlier runs, or anything else, left in         *)
(* localStorage.                                                           *)
(***************************************************************************)
EmptyStore == [key \in storageKeys |-> NoItem]

\* Entries that are no JSON text.
CorruptStore ==
  [key \in storageKeys |->
     CASE key = "todos" -> Item(<<P("["), P("{"), S("id")>>)
       [] key = "agenda" -> Item(<<>>)
       [] key = "city" -> Item(<<W("undefined")>>)
       [] key = "cityMode" -> Item(<<S("manual"), P("}")>>)]

SavedTodos ==
  JArr(<<TodoItem("old-1", "Buy milk", "13:00", HighPriority, FALSE),
         TodoItem("old-2", "Call home", "18:00", DefaultPriority, TRUE)>>)

SavedAgenda == JArr(<<AgendaItem("old-3", "Standup", "09:00", "Room 1")>>)

\* Entries a window wrote.
SavedStore ==
  [key \in storageKeys |->
     CASE key = "todos" -> saveStorage(SavedTodos)
       [] key = "agenda" -> saveStorage(SavedAgenda)
       [] key = "city" -> saveStorage(JStr("Paris"))
       [] key = "cityMode" -> saveStorage(JStr("manual"))]

InitialStores == {EmptyStore, CorruptStore, SavedStore}

\* Entries that are JSON text, of values no window writes: null for the
\* todos, an object for the agenda, null for the city and a word that is no
\* mode for the city mode.
MisshapenStore ==
  [key \in storageKeys |->
     CASE key = "todos" -> Item(<<W("null")>>)
       [] key = "agenda" -> Item(<<P("{"), P("}")>>)
       [] key = "city" -> Item(<<W("null")>>)
       [] key = "cityMode" -> Item(<<S("banana")>>)]

(***************************************************************************)
(* The inputs of the model.                                                *)
(***************************************************************************)
Queries == [desktop : {QNull, "1"},
            module : ModuleNames \cup {QNull, "", "banana"}]

\* What the user types into the forms: every entry with a title, a time, a
\* priority or a location left out or filled in.
TodoForms == [title : {"", "Buy milk"}, time : {"", "13:00"},
              priority : {DefaultPriority, HighPriority}]
AgendaForms == [title : {"", "Standup"}, time : {"", "09:00"},
                location : {"", "Room 1"}]

\* The entries of the runs that follow both lists at once: nothing, and a
\* complete entry.
FewTodoForms ==
  {[title |-> "", time |-> "", priority |-> DefaultPriority],
   [title |-> "Buy milk", time |-> "13:00", priority |-> DefaultPriority]}
FewAgendaForms ==
  {[title |-> "", time |-> "", location |-> ""],
   [title |-> "Standup", time |-> "09:00", location |-> ""]}
CityTexts == {" ", " zh:beijing "}

\* A window that is not open holds nothing.
NoQuery == [desktop |-> QNull, module |-> QNull]
EmptyTodoForm == [title |-> "", time |-> "", priority |-> DefaultPriority]
EmptyAgendaForm == [title |-> "", time |-> "", location |-> ""]

\* No call of locateWeather is in flight; nothing has ended yet.
NoLocate == [phase |-> "none"]
NoReport == [t |-> "nothing"]

\* The weather state of a window as App mounts it (and of a window that is
\* not open): weather null, status 'loading', nothing in flight.
freshWeather(w) ==
  /\ weather' = [weather EXCEPT ![w] = JNull]
  /\ weatherStatus' = [weatherStatus EXCEPT ![w] = "loading"]
  /\ isLocating' = [isLocating EXCEPT ![w] = FALSE]
  /\ autoLocateOnceRef' = [autoLocateOnceRef EXCEPT ![w] = FALSE]
  /\ fetches' = [fetches EXCEPT ![w] = EmptyBag]
  /\ locating' = [locating EXCEPT ![w] = NoLocate]
  /\ resolved' = [resolved EXCEPT ![w] = NoReport]
  /\ located' = [located EXCEPT ![w] = NoReport]
  /\ autoLocates' = [autoLocates EXCEPT ![w] = 0]

InitAll(stores, codes, texts, descs) ==
  /\ store \in stores
  /\ clock = 0
  /\ hasRandomUUID \in BOOLEAN
  /\ idCount = 0
  /\ running = [w \in Wins |-> FALSE]
  /\ query = [w \in Wins |-> NoQuery]
  /\ pending = [w \in Wins |-> {}]
  /\ city = [w \in Wins |-> JNull]
  /\ cityMode = [w \in Wins |-> JNull]
  /\ isEditingCity = [w \in Wins |-> FALSE]
  /\ todos = [w \in Wins |-> JNull]
  /\ todoForm = [w \in Wins |-> EmptyTodoForm]
  /\ agenda = [w \in Wins |-> JNull]
  /\ agendaForm = [w \in Wins |-> EmptyAgendaForm]
  /\ activePanel = [w \in Wins |-> QNull]
  /\ lastOp = [w \in Wins |-> "none"]
  /\ weather = [w \in Wins |-> JNull]
  /\ weatherStatus = [w \in Wins |-> "loading"]
  /\ isLocating = [w \in Wins |-> FALSE]
  /\ autoLocateOnceRef = [w \in Wins |-> FALSE]
  /\ fetches = [w \in Wins |-> EmptyBag]
  /\ locating = [w \in Wins |-> NoLocate]
  /\ resolved = [w \in Wins |-> NoReport]
  /\ located = [w \in Wins |-> NoReport]
  /\ autoLocates = [w \in Wins |-> 0]
  /\ wmoCode \in codes
  /\ wmoWeather = NoReport
  /\ rawText \in texts
  /\ decoded = NoReport
  /\ weatherDesc \in descs
  /\ classified = NoReport

InitWith(stores, codes) == InitAll(stores, codes, {<<>>}, {<<>>})

InitFrom(stores) == InitWith(stores, {0})

Init == InitFrom(InitialStores)

\* No render or effect of window w is under way.
Idle(w) == running[w] /\ pending[w] = {}

(***************************************************************************)
(* A window starts: App mounts, the useState initialisers load the store,  *)
(* and every effect is due after the first render.                         *)
(***************************************************************************)
StartWindow(w, q) ==
  /\ ~running[w]
  /\ running' = [running EXCEPT ![w] = TRUE]
  /\ query' = [query EXCEPT ![w] = q]
  /\ city' = [city EXCEPT ![w] = loadStorage(store["city"], JStr(DefaultCity))]
  /\ cityMode' = [cityMode EXCEPT ![w] = loadStorage(store["cityMode"], JStr("auto"))]
  /\ isEditingCity' = [isEditingCity EXCEPT ![w] = FALSE]
  /\ todos' = [todos EXCEPT ![w] = loadStorage(store["todos"], JArr(<<>>))]
  /\ todoForm' = [todoForm EXCEPT ![w] = EmptyTodoForm]
  /\ agenda' = [agenda EXCEPT ![w] = loadStorage(store["agenda"], JArr(<<>>))]
  /\ agendaForm' = [agendaForm EXCEPT ![w] = EmptyAgendaForm]
  /\ activePanel' = [activePanel EXCEPT ![w] = QNull]
  /\ pending' = [pending EXCEPT ![w] =
                   IF renderThrowsOn(loadStorage(store["todos"], JArr(<<>>)),
                                     loadStorage(store["agenda"], JArr(<<>>)),
                                     loadStorage(store["city"], JStr(DefaultCity)))
                   THEN {} ELSE storageKeys]
  /\ lastOp' = [lastOp EXCEPT ![w] = "start"]
  /\ freshWeather(w)
  /\ UNCHANGED <<shared, pureVars>>

\* The value each save effect writes.
Saved(w, key) ==
  CASE key = "todos" -> todos[w]
    [] key = "agenda" -> agenda[w]
    [] key = "city" -> city[w]
    [] key = "cityMode" -> cityMode[w]

\* The save effects of the last render: useEffect(() => saveStorage(key,
\* value), [value]) for each value that changed.
SaveEffects(w) ==
  /\ running[w]
  /\ pending[w] # {}
  /\ store' = [key \in storageKeys |->
                 IF key \in pending[w] THEN saveStorage(Saved(w, key)) ELSE store[key]]
  /\ pending' = [pending EXCEPT ![w] = {}]
  /\ lastOp' = [lastOp EXCEPT ![w] = "none"]
  /\ UNCHANGED <<clock, hasRandomUUID, idCount, running, query, cityVars,
                 todoVars, agendaVars, activePanel>>

\* The effects of the last render where the weather provider is not
\* followed: the save effects.
RunEffects(w) == SaveEffects(w) /\ UNCHANGED providerVars

\* The window is closed; its React state is gone.
CloseWindow(w) ==
  /\ Idle(w)
  /\ running' = [running EXCEPT ![w] = FALSE]
  /\ query' = [query EXCEPT ![w] = NoQuery]
  /\ city' = [city EXCEPT ![w] = JNull]
  /\ cityMode' = [cityMode EXCEPT ![w] = JNull]
  /\ isEditingCity' = [isEditingCity EXCEPT ![w] = FALSE]
  /\ todos' = [todos EXCEPT ![w] = JNull]
  /\ todoForm' = [todoForm EXCEPT ![w] = EmptyTodoForm]
  /\ agenda' = [agenda EXCEPT ![w] = JNull]
  /\ agendaForm' = [agendaForm EXCEPT ![w] = EmptyAgendaForm]
  /\ activePanel' = [activePanel EXCEPT ![w] = QNull]
  /\ lastOp' = [lastOp EXCEPT ![w] = "none"]
  /\ freshWeather(w)
  /\ UNCHANGED <<shared, pending, pureVars>>

\* A click on a split button of window w: window.open with 'noopener'
\* gives the page no handle on the new window, which starts as any window
\* does, from its URL and the store.
OpenModuleWindow(w, module) ==
  /\ Idle(w)
  /\ Visible(w) \cap splitButtons(module) # {}
  /\ \E v \in Wins \ {w} : \E url \in launchUrls(query[w], module) :
       StartWindow(v, url)

\* A millisecond passes.  (Only createId's fallback reads the clock.)
Tick ==
  /\ ~hasRandomUUID
  /\ clock < MaxClock
  /\ clock' = clock + 1
  /\ UNCHANGED <<providerVars, store, hasRandomUUID, idCount, running, query, pending,
                 cityVars, todoVars, agendaVars, activePanel, lastOp>>

(***************************************************************************)
(* The todo handlers.                                                      *)
(***************************************************************************)
\* A faulty guard: the time is not looked at.
todoFormTitleOnly(form) == form.title # ""

\* if (!todoForm.title || !todoForm.time) return
todoFormComplete(form) == form.title # "" /\ form.time # ""

\* A faulty update: the new item is put in front.
addTodoPrepend(prev, id, form) ==
  JArr(<<TodoItem(id, form.title, form.time, form.priority, FALSE)>> \o prev.a)

\* (prev) => [...prev, { id, title, time, priority, done: false }]
addTodoUpdate(prev, id, form) ==
  JArr(Append(prev.a, TodoItem(id, form.title, form.time, form.priority, FALSE)))

\* A faulty update: done is set rather than flipped.
toggleTodoSetsDone(prev, id) ==
  JArr([i \in 1..Len(prev.a) |->
          IF Field(prev.a[i], "id") = JStr(id)
          THEN WithField(prev.a[i], "done", JBool(TRUE))
          ELSE prev.a[i]])

\* (prev) => prev.map((item) => item.id === id ? { ...item, done: !item.done } : item)
toggleTodoUpdate(prev, id) ==
  JArr([i \in 1..Len(prev.a) |->
          IF Field(prev.a[i], "id") = JStr(id)
          THEN WithField(prev.a[i], "done", JBool(Falsy(Field(prev.a[i], "done"))))
          ELSE prev.a[i]])

\* (prev) => prev.filter((item) => item.id !== id)
deleteTodoUpdate(prev, id) ==
  JArr(SelectSeq(prev.a, LAMBDA item : Field(item, "id") # JStr(id)))

\* A faulty effect: its dependency list is empty, it runs on mount only.
todosEffectsOnMountOnly == {}

\* The save effects due after a render with a new todos array.
todosEffects == {"todos"}

\* A faulty add: the panel is left as it is.
panelAfterAddKept(w) == activePanel[w]

\* if (desktopMode) setActivePanel(null)
panelAfterAdd(w) == IF desktopMode(w) THEN QNull ELSE activePanel[w]

\* The onChange handlers of the todo form: the user types an entry, field by
\* field, and the form holds it.
FillTodoForm(w, form) ==
  /\ Idle(w)
  /\ "todoCard" \in Visible(w)
  /\ form # todoForm[w]
  /\ todoForm' = [todoForm EXCEPT ![w] = form]
  /\ lastOp' = [lastOp EXCEPT ![w] = "none"]
  /\ UNCHANGED <<providerVars, shared, running, query, pending, cityVars, todos, agendaVars,
                 activePanel>>

AddTodo(w) ==
  /\ Idle(w)
  /\ "todoCard" \in Visible(w)
  /\ \/ /\ ~todoFormComplete(todoForm[w])
        /\ lastOp' = [lastOp EXCEPT ![w] = "addTodoRejected"]
        /\ UNCHANGED <<providerVars, shared, running, query, pending, cityVars, todoVars,
                       agendaVars, activePanel>>
     \/ /\ todoFormComplete(todoForm[w])
        /\ CanCreateId
        /\ Len(todos[w].a) < MaxLen
        /\ todos' = [todos EXCEPT ![w] = addTodoUpdate(@, createId, todoForm[w])]
        /\ createIdDone
        /\ todoForm' = [todoForm EXCEPT ![w] =
                          [title |-> "", time |-> "", priority |-> @.priority]]
        /\ activePanel' = [activePanel EXCEPT ![w] = panelAfterAdd(w)]
        /\ pending' = [pending EXCEPT ![w] = todosEffects]
        /\ lastOp' = [lastOp EXCEPT ![w] = "addTodo"]
        /\ UNCHANGED <<providerVars, store, running, query, cityVars, agendaVars>>

\* The list's buttons call toggleTodo and deleteTodo with the id of the item
\* they belong to; the handlers take any id.
ToggleTodo(w, id) ==
  /\ Idle(w)
  /\ "todoCard" \in Visible(w)
  /\ todos' = [todos EXCEPT ![w] = toggleTodoUpdate(@, id)]
  /\ pending' = [pending EXCEPT ![w] = todosEffects]
  /\ lastOp' = [lastOp EXCEPT ![w] = "toggleTodo"]
  /\ UNCHANGED <<providerVars, shared, running, query, cityVars, todoForm, agendaVars,
                 activePanel>>

DeleteTodo(w, id) ==
  /\ Idle(w)
  /\ "todoCard" \in Visible(w)
  /\ todos' = [todos EXCEPT ![w] = deleteTodoUpdate(@, id)]
  /\ pending' = [pending EXCEPT ![w] = todosEffects]
  /\ lastOp' = [lastOp EXCEPT ![w] = "deleteTodo"]
  /\ UNCHANGED <<providerVars, shared, running, query, cityVars, todoForm, agendaVars,
                 activePanel>>

(***************************************************************************)
(* The agenda handlers.                                                    *)
(***************************************************************************)
\* if (!agendaForm.title || !agendaForm.time) return
agendaFormComplete(form) == form.title # "" /\ form.time # ""

\* A faulty update: the location is taken as typed.
addAgendaNoDefault(prev, id, form) ==
  JArr(Append(prev.a, AgendaItem(id, form.title, form.time, form.location)))

\* (prev) => [...prev, { id, title, time, location: agendaForm.location || '待定' }]
addAgendaUpdate(prev, id, form) ==
  JArr(Append(prev.a,
              AgendaItem(id, form.title, form.time,
                         IF form.location = "" THEN PendingLocation
                         ELSE form.location)))

\* A faulty update: the filter keeps the item it should drop.
deleteAgendaKeepsMatch(prev, id) ==
  JArr(SelectSeq(prev.a, LAMBDA item : Field(item, "id") = JStr(id)))

\* (prev) => prev.filter((item) => item.id !== id)
deleteAgendaUpdate(prev, id) ==
  JArr(SelectSeq(prev.a, LAMBDA item : Field(item, "id") # JStr(id)))

\* The save effects due after a render with a new agenda array.
agendaEffects == {"agenda"}

\* The onChange handlers of the agenda form.
FillAgendaForm(w, form) ==
  /\ Idle(w)
  /\ "agendaCard" \in Visible(w)
  /\ form # agendaForm[w]
  /\ agendaForm' = [agendaForm EXCEPT ![w] = form]
  /\ lastOp' = [lastOp EXCEPT ![w] = "none"]
  /\ UNCHANGED <<providerVars, shared, running, query, pending, cityVars, todoVars, agenda,
                 activePanel>>

AddAgenda(w) ==
  /\ Idle(w)
  /\ "agendaCard" \in Visible(w)
  /\ \/ /\ ~agendaFormComplete(agendaForm[w])
        /\ lastOp' = [lastOp EXCEPT ![w] = "addAgendaRejected"]
        /\ UNCHANGED <<providerVars, shared, running, query, pending, cityVars, todoVars,
                       agendaVars, activePanel>>
     \/ /\ agendaFormComplete(agendaForm[w])
        /\ CanCreateId
        /\ Len(agenda[w].a) < MaxLen
        /\ agenda' = [agenda EXCEPT ![w] = addAgendaUpdate(@, createId, agendaForm[w])]
        /\ createIdDone
        /\ agendaForm' = [agendaForm EXCEPT ![w] = EmptyAgendaForm]
        /\ activePanel' = [activePanel EXCEPT ![w] = panelAfterAdd(w)]
        /\ pending' = [pending EXCEPT ![w] = agendaEffects]
        /\ lastOp' = [lastOp EXCEPT ![w] = "addAgenda"]
        /\ UNCHANGED <<providerVars, store, running, query, cityVars, todoVars>>

\* The delete button of an agenda item, in the agenda card and in the peek
\* list.
DeleteAgenda(w, id) ==
  /\ Idle(w)
  /\ Visible(w) \cap {"agendaCard", "agendaPeek"} # {}
  /\ agenda' = [agenda EXCEPT ![w] = deleteAgendaUpdate(@, id)]
  /\ pending' = [pending EXCEPT ![w] = agendaEffects]
  /\ lastOp' = [lastOp EXCEPT ![w] = "deleteAgenda"]
  /\ UNCHANGED <<providerVars, shared, running, query, cityVars, todoVars, agendaForm,
                 activePanel>>

(***************************************************************************)
(* The overlay panel and the city input.                                   *)
(***************************************************************************)
\* The peek rows, the peek headers' + buttons and the dock buttons.
OpenPanel(w, panel) ==
  /\ Idle(w)
  /\ "dock" \in Visible(w)
  /\ activePanel' = [activePanel EXCEPT ![w] = panel]
  /\ lastOp' = [lastOp EXCEPT ![w] = "none"]
  /\ UNCHANGED <<providerVars, shared, running, query, pending, cityVars, todoVars, agendaVars>>

\* A click on the overlay outside the panel, or on the panel's close button.
ClosePanel(w) ==
  /\ Idle(w)
  /\ "overlay" \in Visible(w)
  /\ activePanel' = [activePanel EXCEPT ![w] = QNull]
  /\ lastOp' = [lastOp EXCEPT ![w] = "none"]
  /\ UNCHANGED <<providerVars, shared, running, query, pending, cityVars, todoVars, agendaVars>>

\* A click inside the panel, on no control of it: the panel's onClick stops
\* the event, which does not reach the overlay's onClick.
ClickInPanel(w) ==
  /\ Idle(w)
  /\ "overlay" \in Visible(w)
  /\ lastOp' = [lastOp EXCEPT ![w] = "clickInPanel"]
  /\ UNCHANGED <<providerVars, shared, running, query, pending, cityVars, todoVars,
                 agendaVars, activePanel>>

\* The reports of resolved and located are those of the last step.
noReport(w) ==
  /\ resolved' = [resolved EXCEPT ![w] = NoReport]
  /\ located' = [located EXCEPT ![w] = NoReport]

\* A click on the city name.
EditCity(w) ==
  /\ Idle(w)
  /\ "weatherCard" \in Visible(w)
  /\ ~isEditingCity[w]
  /\ isEditingCity' = [isEditingCity EXCEPT ![w] = TRUE]
  /\ lastOp' = [lastOp EXCEPT ![w] = "none"]
  /\ noReport(w)
  /\ UNCHANGED <<weatherKept, pureVars, shared, running, query, pending, city,
                 cityMode, todoVars, agendaVars, activePanel>>

\* A faulty commit: the trimmed text is taken as it is.
committedCityAsTyped(text, old) == JStr(Trim(text))

\* e.target.value.trim() || city
committedCity(text, old) == IF Trim(text) = "" THEN old ELSE JStr(Trim(text))

\* A faulty set of effects: the city mode has none.
cityEffectsCityOnly(oldCity, newCity, oldMode, newMode) ==
  IF newCity # oldCity THEN {"city"} ELSE {}

\* The save effects due after a render: those of the values that changed
\* (Object.is on the dependencies).
cityEffects(oldCity, newCity, oldMode, newMode) ==
  (IF newCity # oldCity THEN {"city"} ELSE {})
  \cup (IF newMode # oldMode THEN {"cityMode"} ELSE {})

\* onBlur, or Enter, in the city input.
CommitCity(w, text) ==
  /\ Idle(w)
  /\ "weatherCard" \in Visible(w)
  /\ isEditingCity[w]
  /\ city' = [city EXCEPT ![w] = committedCity(text, @)]
  /\ cityMode' = [cityMode EXCEPT ![w] = JStr("manual")]
  /\ isEditingCity' = [isEditingCity EXCEPT ![w] = FALSE]
  /\ pending' = [pending EXCEPT ![w] =
                   cityEffects(city[w], committedCity(text, city[w]),
                               cityMode[w], JStr("manual"))]
  /\ lastOp' = [lastOp EXCEPT ![w] = "commitCity"]
  /\ noReport(w)
  /\ UNCHANGED <<weatherKept, pureVars, shared, running, query, todoVars,
                 agendaVars, activePanel>>

(***************************************************************************)
(* The weather provider: normalizeCityName, mapWmoToWeather, fetchWeather. *)
(***************************************************************************)
\* s.toLowerCase(), on the texts the model uses.
Lower(s) ==
  CASE s = "Guangzhou" -> "guangzhou"
    [] s = "Ningbo" -> "ningbo"
    [] OTHER -> s

\* A faulty normalizeCityName: the name is not trimmed.
normalizeCityNameUntrimmed(raw) ==
  LET value == raw
      lower == Lower(value)
  IN IF value = "" THEN ""
     ELSE CASE lower = "ningbo" -> "zh:ningbo"
            [] lower = "beijing" -> "zh:beijing"
            [] lower = "shanghai" -> "zh:shanghai"
            [] lower = "hangzhou" -> "zh:hangzhou"
            [] lower = "shenzhen" -> "zh:shenzhen"
            [] lower = "guangzhou" -> "zh:guangzhou"
            [] OTHER -> value

\* const value = raw.trim(); if (!value) return ''; then the table of the
\* lower-cased names.
normalizeCityName(raw) ==
  LET value == Trim(raw)
      lower == Lower(value)
  IN IF value = "" THEN ""
     ELSE CASE lower = "ningbo" -> "zh:ningbo"
            [] lower = "beijing" -> "zh:beijing"
            [] lower = "shanghai" -> "zh:shanghai"
            [] lower = "hangzhou" -> "zh:hangzhou"
            [] lower = "shenzhen" -> "zh:shenzhen"
            [] lower = "guangzhou" -> "zh:guangzhou"
            [] OTHER -> value

\* The texts are '晴', '大部晴朗', '多云', '阴', '雾', '毛毛雨', '雨', '雪',
\* '阵雨', '阵雪' and '雷暴'; the icons are named after what they show.
Condition(text, icon) == [text |-> text, icon |-> icon]

\* mapWmoToWeather with code < 57 as the end of the range of '毛毛雨'.
mapWmoShortDrizzle(code) ==
  IF code = 0 THEN Condition("zh:qing", "sun")
  ELSE IF code = 1 THEN Condition("zh:dabuqinglang", "sun behind small cloud")
  ELSE IF code = 2 THEN Condition("zh:duoyun", "sun behind cloud")
  ELSE IF code = 3 THEN Condition("zh:yin", "cloud")
  ELSE IF code = 45 \/ code = 48 THEN Condition("zh:wu", "fog")
  ELSE IF code >= 51 /\ code < 57 THEN Condition("zh:maomaoyu", "sun behind rain cloud")
  ELSE IF code >= 61 /\ code <= 67 THEN Condition("zh:yu", "cloud with rain")
  ELSE IF code >= 71 /\ code <= 77 THEN Condition("zh:xue", "cloud with snow")
  ELSE IF code >= 80 /\ code <= 82 THEN Condition("zh:zhenyu", "sun behind rain cloud")
  ELSE IF code >= 85 /\ code <= 86 THEN Condition("zh:zhenxue", "cloud with snow")
  ELSE IF code >= 95 THEN Condition("zh:leibao", "cloud with lightning and rain")
  ELSE Condition("zh:duoyun", "sun behind cloud")

\* mapWmoToWeather with 99 as the end of the range of '雷暴'.
mapWmoThunderUpTo99(code) ==
  IF code = 0 THEN Condition("zh:qing", "sun")
  ELSE IF code = 1 THEN Condition("zh:dabuqinglang", "sun behind small cloud")
  ELSE IF code = 2 THEN Condition("zh:duoyun", "sun behind cloud")
  ELSE IF code = 3 THEN Condition("zh:yin", "cloud")
  ELSE IF code = 45 \/ code = 48 THEN Condition("zh:wu", "fog")
  ELSE IF code >= 51 /\ code <= 57 THEN Condition("zh:maomaoyu", "sun behind rain cloud")
  ELSE IF code >= 61 /\ code <= 67 THEN Condition("zh:yu", "cloud with rain")
  ELSE IF code >= 71 /\ code <= 77 THEN Condition("zh:xue", "cloud with snow")
  ELSE IF code >= 80 /\ code <= 82 THEN Condition("zh:zhenyu", "sun behind rain cloud")
  ELSE IF code >= 85 /\ code <= 86 THEN Condition("zh:zhenxue", "cloud with snow")
  ELSE IF code >= 95 /\ code <= 99 THEN Condition("zh:leibao", "cloud with lightning and rain")
  ELSE Condition("zh:duoyun", "sun behind cloud")

mapWmoToWeather(code) ==
  IF code = 0 THEN Condition("zh:qing", "sun")
  ELSE IF code = 1 THEN Condition("zh:dabuqinglang", "sun behind small cloud")
  ELSE IF code = 2 THEN Condition("zh:duoyun", "sun behind cloud")
  ELSE IF code = 3 THEN Condition("zh:yin", "cloud")
  ELSE IF code = 45 \/ code = 48 THEN Condition("zh:wu", "fog")
  ELSE IF code >= 51 /\ code <= 57 THEN Condition("zh:maomaoyu", "sun behind rain cloud")
  ELSE IF code >= 61 /\ code <= 67 THEN Condition("zh:yu", "cloud with rain")
  ELSE IF code >= 71 /\ code <= 77 THEN Condition("zh:xue", "cloud with snow")
  ELSE IF code >= 80 /\ code <= 82 THEN Condition("zh:zhenyu", "sun behind rain cloud")
  ELSE IF code >= 85 /\ code <= 86 THEN Condition("zh:zhenxue", "cloud with snow")
  ELSE IF code >= 95 THEN Condition("zh:leibao", "cloud with lightning and rain")
  ELSE Condition("zh:duoyun", "sun behind cloud")

(***************************************************************************)
(* The text report of wttr.in: its description, a string, is a sequence of *)
(* characters.                                                             *)
(***************************************************************************)
\* The lower-case letter of an upper-case one; any other character is left.
lowerChar(c) ==
  CASE
       c = "A" -> "a"
    [] c = "B" -> "b"
    [] c = "C" -> "c"
    [] c = "D" -> "d"
    [] c = "E" -> "e"
    [] c = "F" -> "f"
    [] c = "G" -> "g"
    [] c = "H" -> "h"
    [] c = "I" -> "i"
    [] c = "J" -> "j"
    [] c = "K" -> "k"
    [] c = "L" -> "l"
    [] c = "M" -> "m"
    [] c = "N" -> "n"
    [] c = "O" -> "o"
    [] c = "P" -> "p"
    [] c = "Q" -> "q"
    [] c = "R" -> "r"
    [] c = "S" -> "s"
    [] c = "T" -> "t"
    [] c = "U" -> "u"
    [] c = "V" -> "v"
    [] c = "W" -> "w"
    [] c = "X" -> "x"
    [] c = "Y" -> "y"
    [] c = "Z" -> "z"
    [] OTHER -> c

\* String.prototype.toLowerCase.
toLowerCase(text) == [i \in 1..Len(text) |-> lowerChar(text[i])]

\* String.prototype.includes: word is found at some place of text.
includes(text, word) ==
  \E i \in 0..(Len(text) - Len(word)) : SubSeq(text, i + 1, i + Len(word)) = word

\* The keywords of the classification.
Keywords ==
  [sunny |-> <<"s", "u", "n", "n", "y">>,
   clear |-> <<"c", "l", "e", "a", "r">>,
   partlyCloudy |-> <<"p", "a", "r", "t", "l", "y", " ", "c", "l", "o", "u", "d", "y">>,
   cloudy |-> <<"c", "l", "o", "u", "d", "y">>,
   overcast |-> <<"o", "v", "e", "r", "c", "a", "s", "t">>,
   rain |-> <<"r", "a", "i", "n">>,
   drizzle |-> <<"d", "r", "i", "z", "z", "l", "e">>,
   shower |-> <<"s", "h", "o", "w", "e", "r">>,
   snow |-> <<"s", "n", "o", "w">>,
   ice |-> <<"i", "c", "e">>,
   blizzard |-> <<"b", "l", "i", "z", "z", "a", "r", "d">>,
   thunder |-> <<"t", "h", "u", "n", "d", "e", "r">>,
   fog |-> <<"f", "o", "g">>,
   mist |-> <<"m", "i", "s", "t">>,
   haze |-> <<"h", "a", "z", "e">>]

\* A faulty classification: 'cloudy' is looked for before 'partly cloudy'.
classifyCloudyFirst(value) ==
  LET desc == toLowerCase(value) IN
  IF includes(desc, Keywords.sunny) \/ includes(desc, Keywords.clear)
    THEN Condition("zh:qing", "sun")
  ELSE IF includes(desc, Keywords.cloudy) \/ includes(desc, Keywords.overcast)
    THEN Condition("zh:yin", "cloud")
  ELSE IF includes(desc, Keywords.partlyCloudy)
    THEN Condition("zh:duoyun", "sun behind cloud")
  ELSE IF includes(desc, Keywords.rain) \/ includes(desc, Keywords.drizzle) \/ includes(desc, Keywords.shower)
    THEN Condition("zh:yu", "cloud with rain")
  ELSE IF includes(desc, Keywords.snow) \/ includes(desc, Keywords.ice) \/ includes(desc, Keywords.blizzard)
    THEN Condition("zh:xue", "cloud with snow")
  ELSE IF includes(desc, Keywords.thunder)
    THEN Condition("zh:leibao", "cloud with lightning and rain")
  ELSE IF includes(desc, Keywords.fog) \/ includes(desc, Keywords.mist) \/ includes(desc, Keywords.haze)
    THEN Condition("zh:wu", "fog")
  ELSE Condition("zh:duoyun", "sun behind cloud")

\* const desc = (current.weatherDesc[0]?.value ?? '').toLowerCase(), and the
\* chain of if ... else if on desc.includes, with '多云' and its icon set
\* before it.
classifyDesc(value) ==
  LET desc == toLowerCase(value) IN
  IF includes(desc, Keywords.sunny) \/ includes(desc, Keywords.clear)
    THEN Condition("zh:qing", "sun")
  ELSE IF includes(desc, Keywords.partlyCloudy)
    THEN Condition("zh:duoyun", "sun behind cloud")
  ELSE IF includes(desc, Keywords.cloudy) \/ includes(desc, Keywords.overcast)
    THEN Condition("zh:yin", "cloud")
  ELSE IF includes(desc, Keywords.rain) \/ includes(desc, Keywords.drizzle) \/ includes(desc, Keywords.shower)
    THEN Condition("zh:yu", "cloud with rain")
  ELSE IF includes(desc, Keywords.snow) \/ includes(desc, Keywords.ice) \/ includes(desc, Keywords.blizzard)
    THEN Condition("zh:xue", "cloud with snow")
  ELSE IF includes(desc, Keywords.thunder)
    THEN Condition("zh:leibao", "cloud with lightning and rain")
  ELSE IF includes(desc, Keywords.fog) \/ includes(desc, Keywords.mist) \/ includes(desc, Keywords.haze)
    THEN Condition("zh:wu", "fog")
  ELSE Condition("zh:duoyun", "sun behind cloud")

\* setWeather({ city: normalized, condition, ..., icon })
WeatherInfo(cityName, mapped) ==
  [t |-> "weather", city |-> cityName, condition |-> mapped.text,
   icon |-> mapped.icon]

\* fetchJson without its timer.
NoTimerReplies == {}

\* How the timer of fetchJson ends a call that has no answer after
\* timeoutMs: controller.abort() makes fetch throw.
TimerReplies == {"timeout"}

\* What a network call comes back with: the payload the code reads ("ok"),
\* an answer without it (no geocoding result, no current, no
\* current_condition[0]), an exception of fetchJson (network error, bad
\* status, no JSON), or the abort by its timer.
Replies == {"ok", "empty", "fail"} \cup TimerReplies

\* The weather_code of the forecasts the model receives.
ForecastCodes == {61}

\* What the text report of wttr.in is classified as when its description is
\* 'Sunny'.
SunnyReport == Condition("zh:qing", "sun")

\* A call of fetchWeather in flight: the normalized city, the network calls
\* issued so far (the last one is awaited) and those that failed.
Fetch(cityName) == [city |-> cityName, calls |-> <<"geocode">>, failed |-> {}]

awaited(f) == f.calls[Len(f.calls)]

\* fetchWeather without the catch of the inner try.
fetchNextNoFallback(call, reply) ==
  IF reply = "ok"
  THEN (IF call = "geocode" THEN "forecast" ELSE "ready")
  ELSE "error"

\* Where fetchWeather goes when the awaited call comes back: the forecast
\* after the geocode, the text report (the catch of the inner try) after a
\* failure of either, and the end, 'ready' or 'error'.
fetchNext(call, reply) ==
  IF reply = "ok"
  THEN (IF call = "geocode" THEN "forecast" ELSE "ready")
  ELSE (IF call = "wttr" THEN "error" ELSE "wttr")

failedAfter(f, reply) ==
  IF reply = "ok" THEN f.failed ELSE f.failed \cup {awaited(f)}

advance(f, reply) ==
  [city |-> f.city, calls |-> Append(f.calls, fetchNext(awaited(f), reply)),
   failed |-> failedAfter(f, reply)]

\* How a call of fetchWeather ended (history).
Resolution(f, reply) ==
  [t |-> "resolution", city |-> f.city, calls |-> f.calls,
   failed |-> failedAfter(f, reply), ok |-> (reply = "ok")]

\* if (!normalized) { setWeatherStatus('error'); return false }
EmptyCityResolution ==
  [t |-> "resolution", city |-> "", calls |-> <<>>, failed |-> {}, ok |-> FALSE]

\* The WeatherInfo of a call that succeeds with the awaited call.
infoOf(f, code) ==
  IF awaited(f) = "forecast" THEN WeatherInfo(f.city, mapWmoToWeather(code))
  ELSE WeatherInfo(f.city, SunnyReport)

\* fetchWeather that clears the WeatherInfo in its outer catch.
weatherAfterCleared(old, f, next, code) ==
  IF next = "ready" THEN infoOf(f, code)
  ELSE IF next = "error" THEN JNull ELSE old

\* The WeatherInfo held after the awaited call came back: setWeather is
\* called on the two ways to 'ready' only.
weatherAfter(old, f, next, code) ==
  IF next = "ready" THEN infoOf(f, code) ELSE old

\* What no step of the weather provider changes.
notWeather == <<store, clock, hasRandomUUID, idCount, running, query,
                isEditingCity, todoVars, agendaVars, activePanel, pureVars>>

\* At most MaxFetches calls of the effect are in flight.
CanFetch(w) == BagCardinality(fetches[w]) < MaxFetches

\* A network call of a fetchWeather(city) that the effect started comes back.
FetchReply(w, f, reply, code) ==
  /\ Idle(w)
  /\ BagIn(f, fetches[w])
  /\ LET next == fetchNext(awaited(f), reply)
         rest == fetches[w] (-) SetToBag({f})
     IN /\ fetches' = [fetches EXCEPT ![w] =
                         IF next \in {"ready", "error"} THEN rest
                         ELSE rest (+) SetToBag({advance(f, reply)})]
        /\ weather' = [weather EXCEPT ![w] = weatherAfter(@, f, next, code)]
        /\ weatherStatus' = [weatherStatus EXCEPT ![w] =
                               IF next \in {"ready", "error"} THEN next ELSE @]
        /\ resolved' = [resolved EXCEPT ![w] =
                          IF next \in {"ready", "error"} THEN Resolution(f, reply)
                          ELSE NoReport]
  /\ located' = [located EXCEPT ![w] = NoReport]
  /\ lastOp' = [lastOp EXCEPT ![w] = "none"]
  /\ UNCHANGED <<notWeather, pending, city, cityMode, isLocating,
                 autoLocateOnceRef, locating, autoLocates>>

(***************************************************************************)
(* locateWeather: the city of this machine's address, and its weather.     *)
(***************************************************************************)
\* ipEndpoints: 1 is ipwho.is, 2 is ipapi.co, 3 is geolocation-db.com.
NumEndpoints == 3

\* The city field of the answers of an endpoint: none, blanks, a name.
EndpointCities == {"", " ", "Guangzhou"}

\* What an endpoint comes back with: an exception of fetchJson, or an answer
\* and its city field.
EndpointReplies ==
  {[ok |-> FALSE, city |-> ""]} \cup {[ok |-> TRUE, city |-> c] : c \in EndpointCities}

\* What a call of locateWeather could change, as it is when the call starts.
Snapshot(w, status) ==
  [city |-> city[w], cityMode |-> cityMode[w], weather |-> weather[w],
   weatherStatus |-> status]

\* A call of locateWeather awaiting its first endpoint.  by is "effect" or
\* "click"; tried and before are history: the endpoints asked, and the state
\* at the start, kept for the calls that start while no other call of
\* fetchWeather is in flight.
Locate(by, before, alone) ==
  [phase |-> "ip", by |-> by, endpoint |-> 1, tried |-> <<1>>,
   city |-> "", calls |-> <<>>, failed |-> {},
   before |-> IF alone THEN before ELSE NoReport]

\* How a call of locateWeather ended, and why it left its last endpoint
\* (history).
Located(l, ok, kind) ==
  [t |-> "located", ok |-> ok, by |-> l.by, tried |-> l.tried,
   kind |-> kind, city |-> l.city, before |-> l.before]

\* locateWeather that returns when the weather of an endpoint's city fails.
locateAbortOnWeather(w, kind) ==
  LET l == locating[w] IN
  IF l.endpoint < NumEndpoints /\ kind # "weather"
  THEN /\ locating' = [locating EXCEPT ![w] =
                         [l EXCEPT !.phase = "ip", !.endpoint = @ + 1,
                                   !.tried = Append(@, l.endpoint + 1),
                                   !.city = "", !.calls = <<>>,
                                   !.failed = {}]]
       /\ located' = [located EXCEPT ![w] = NoReport]
       /\ lastOp' = [lastOp EXCEPT ![w] = "locateNext"]
       /\ UNCHANGED isLocating
  ELSE /\ locating' = [locating EXCEPT ![w] = NoLocate]
       /\ isLocating' = [isLocating EXCEPT ![w] = FALSE]
       /\ located' = [located EXCEPT ![w] = Located(l, FALSE, kind)]
       /\ lastOp' = [lastOp EXCEPT ![w] = "locateFailed"]

\* The for loop goes on to the next endpoint, or ends: finally
\* setIsLocating(false).
locateMoveOn(w, kind) ==
  LET l == locating[w] IN
  IF l.endpoint < NumEndpoints
  THEN /\ locating' = [locating EXCEPT ![w] =
                         [l EXCEPT !.phase = "ip", !.endpoint = @ + 1,
                                   !.tried = Append(@, l.endpoint + 1),
                                   !.city = "", !.calls = <<>>,
                                   !.failed = {}]]
       /\ located' = [located EXCEPT ![w] = NoReport]
       /\ lastOp' = [lastOp EXCEPT ![w] = "locateNext"]
       /\ UNCHANGED isLocating
  ELSE /\ locating' = [locating EXCEPT ![w] = NoLocate]
       /\ isLocating' = [isLocating EXCEPT ![w] = FALSE]
       /\ located' = [located EXCEPT ![w] =
                        Located(l, FALSE, kind)]
       /\ lastOp' = [lastOp EXCEPT ![w] = "locateFailed"]

\* The locate button: onClick={() => locateWeather()}, disabled={isLocating}.
LocateClick(w) ==
  /\ Idle(w)
  /\ "weatherCard" \in Visible(w)
  /\ ~isLocating[w]
  /\ isLocating' = [isLocating EXCEPT ![w] = TRUE]
  /\ locating' = [locating EXCEPT ![w] =
                    Locate("click", Snapshot(w, weatherStatus[w]),
                           fetches[w] = EmptyBag)]
  /\ noReport(w)
  /\ lastOp' = [lastOp EXCEPT ![w] = "none"]
  /\ UNCHANGED <<notWeather, pending, city, cityMode, weather, weatherStatus,
                 autoLocateOnceRef, fetches, autoLocates>>

\* The endpoint awaited by locateWeather comes back; with a city, the call
\* goes on with fetchWeather(normalizeCityName(data.city)).
LocateReply(w, reply) ==
  /\ Idle(w)
  /\ locating[w].phase = "ip"
  /\ LET cityName == normalizeCityName(reply.city) IN
     IF ~reply.ok
     THEN /\ locateMoveOn(w, "network")
          /\ resolved' = [resolved EXCEPT ![w] = NoReport]
          /\ UNCHANGED weatherStatus
     ELSE IF reply.city = ""
     THEN /\ locateMoveOn(w, "nocity")
          /\ resolved' = [resolved EXCEPT ![w] = NoReport]
          /\ UNCHANGED weatherStatus
     ELSE IF cityName = ""
     THEN /\ weatherStatus' = [weatherStatus EXCEPT ![w] = "error"]
          /\ resolved' = [resolved EXCEPT ![w] = EmptyCityResolution]
          /\ locateMoveOn(w, "weather")
     ELSE /\ weatherStatus' = [weatherStatus EXCEPT ![w] = "loading"]
          /\ locating' = [locating EXCEPT ![w] =
                            [@ EXCEPT !.phase = "fetch", !.city = cityName,
                                      !.calls = <<"geocode">>]]
          /\ noReport(w)
          /\ lastOp' = [lastOp EXCEPT ![w] = "none"]
          /\ UNCHANGED isLocating
  /\ UNCHANGED <<notWeather, pending, city, cityMode, weather,
                 autoLocateOnceRef, fetches, autoLocates>>

\* The call of fetchWeather inside locateWeather.
fetchOf(l) == [city |-> l.city, calls |-> l.calls, failed |-> l.failed]

\* if (ok) { setCity(cityName); setCityMode('auto'); return }
locateCommit(w) ==
  LET l == locating[w] IN
  /\ city' = [city EXCEPT ![w] = JStr(l.city)]
  /\ cityMode' = [cityMode EXCEPT ![w] = JStr("auto")]
  /\ pending' = [pending EXCEPT ![w] =
                   cityEffects(city[w], JStr(l.city), cityMode[w], JStr("auto"))]
  /\ locating' = [locating EXCEPT ![w] = NoLocate]
  /\ isLocating' = [isLocating EXCEPT ![w] = FALSE]
  /\ located' = [located EXCEPT ![w] = Located(l, TRUE, "resolved")]
  /\ lastOp' = [lastOp EXCEPT ![w] = "locate"]

\* A network call of the fetchWeather inside locateWeather comes back; when
\* that ends the call, locateWeather goes on in the same turn.
LocateFetchReply(w, reply, code) ==
  /\ Idle(w)
  /\ locating[w].phase = "fetch"
  /\ CanFetch(w)
  /\ LET f == fetchOf(locating[w])
         next == fetchNext(awaited(f), reply)
     IN /\ weather' = [weather EXCEPT ![w] = weatherAfter(@, f, next, code)]
        /\ CASE next = "ready" ->
               /\ weatherStatus' = [weatherStatus EXCEPT ![w] = "ready"]
               /\ resolved' = [resolved EXCEPT ![w] = Resolution(f, reply)]
               /\ locateCommit(w)
          [] next = "error" ->
               /\ weatherStatus' = [weatherStatus EXCEPT ![w] = "error"]
               /\ resolved' = [resolved EXCEPT ![w] = Resolution(f, reply)]
               /\ locateMoveOn(w, "weather")
               /\ UNCHANGED <<city, cityMode, pending>>
          [] OTHER ->
               /\ locating' = [locating EXCEPT ![w] =
                                 [@ EXCEPT !.calls = advance(f, reply).calls,
                                           !.failed = advance(f, reply).failed]]
               /\ noReport(w)
               /\ lastOp' = [lastOp EXCEPT ![w] = "none"]
               /\ UNCHANGED <<weatherStatus, city, cityMode, pending,
                              isLocating>>
  /\ UNCHANGED <<notWeather, autoLocateOnceRef, fetches, autoLocates>>

(***************************************************************************)
(* The effect of [city, cityMode]: the weather of the city, and the one    *)
(* automatic call of locateWeather.                                        *)
(***************************************************************************)
\* The effect without the guard of autoLocateOnceRef.
autoLocateDueEveryTime(w) == cityMode[w] = JStr("auto")

\* if (cityMode !== 'auto') return; if (autoLocateOnceRef.current) return
autoLocateDue(w) == cityMode[w] = JStr("auto") /\ ~autoLocateOnceRef[w]

weatherEffect(w) ==
  LET known == IsStr(city[w])
      normalized == IF known THEN normalizeCityName(city[w].s) ELSE ""
      status == IF ~known THEN weatherStatus[w]
                ELSE IF normalized = "" THEN "error" ELSE "loading"
      flying == IF known /\ normalized # ""
                THEN fetches[w] (+) SetToBag({Fetch(normalized)})
                ELSE fetches[w]
  IN /\ weatherStatus' = [weatherStatus EXCEPT ![w] = status]
     /\ fetches' = [fetches EXCEPT ![w] = flying]
     /\ resolved' = [resolved EXCEPT ![w] =
                       IF known /\ normalized = "" THEN EmptyCityResolution
                       ELSE NoReport]
     /\ IF autoLocateDue(w)
        THEN /\ autoLocateOnceRef' = [autoLocateOnceRef EXCEPT ![w] = TRUE]
             /\ autoLocates' = [autoLocates EXCEPT ![w] = @ + 1]
             /\ isLocating' = [isLocating EXCEPT ![w] = TRUE]
             /\ locating' = [locating EXCEPT ![w] =
                               Locate("effect", Snapshot(w, status),
                                      flying = EmptyBag)]
        ELSE UNCHANGED <<autoLocateOnceRef, autoLocates, isLocating, locating>>
     /\ located' = [located EXCEPT ![w] = NoReport]
     /\ UNCHANGED weather

\* The effects of the last render: the save effects and the weather effect.
RunAllEffects(w) ==
  /\ SaveEffects(w)
  /\ IF pending[w] \cap {"city", "cityMode"} # {}
     THEN weatherEffect(w)
     ELSE noReport(w) /\ UNCHANGED weatherKept
  /\ UNCHANGED pureVars

(***************************************************************************)
(* The steps of one window, and the specifications.                        *)
(***************************************************************************)
\* Launch URLs: the full dashboard in a browser tab and as the desktop
\* window, and the two list modules as the desktop windows openModuleWindow
\* asks for.
FullBrowser == [desktop |-> QNull, module |-> QNull]
FullDesktop == [desktop |-> "1", module |-> QNull]
TodoModule == [desktop |-> "1", module |-> "todo"]
AgendaModule == [desktop |-> "1", module |-> "agenda"]

\* The window is started with one of the URLs, runs its effects, is closed.
Lifecycle(w, urls) ==
  \/ \E q \in urls : StartWindow(w, q)
  \/ RunEffects(w)
  \/ CloseWindow(w)

TodoStep(w, forms) ==
  \/ \E form \in forms : FillTodoForm(w, form)
  \/ AddTodo(w)
  \/ \E id \in IdArgs(todos[w]) : ToggleTodo(w, id)
  \/ \E id \in IdArgs(todos[w]) : DeleteTodo(w, id)

AgendaStep(w, forms) ==
  \/ \E form \in forms : FillAgendaForm(w, form)
  \/ AddAgenda(w)
  \/ \E id \in IdArgs(agenda[w]) : DeleteAgenda(w, id)

PanelStep(w) ==
  \/ \E panel \in {"todo", "agenda"} : OpenPanel(w, panel)
  \/ ClosePanel(w)

CityStep(w) ==
  \/ EditCity(w)
  \/ \E text \in CityTexts : CommitCity(w, text)

\* Where crypto.randomUUID exists, as it does in the Chromium of the desktop
\* shell and in a browser's secure context.
InitUUID == Init /\ hasRandomUUID

\* The same on a store never written.
InitDefault == InitFrom({EmptyStore}) /\ hasRandomUUID

\* One window with the full dashboard in a browser tab: the handlers of the
\* two lists and of the city.
Next ==
  \/ Lifecycle(1, {FullBrowser})
  \/ TodoStep(1, FewTodoForms)
  \/ AgendaStep(1, FewAgendaForms)
  \/ CityStep(1)

Spec == InitUUID /\ [][Next]_vars

\* One window with the full dashboard in a browser tab: the handlers of the
\* two lists, with either source of ids.
NextLists ==
  \/ Tick
  \/ Lifecycle(1, {FullBrowser})
  \/ TodoStep(1, FewTodoForms)
  \/ AgendaStep(1, FewAgendaForms)

SpecLists == Init /\ [][NextLists]_vars

\* One window that shows the todo list, in a tab, as the desktop window's
\* panel, or as a module window: the todo handlers.
NextTodo ==
  \/ Lifecycle(1, {FullBrowser, FullDesktop, TodoModule})
  \/ TodoStep(1, TodoForms)
  \/ PanelStep(1)

SpecTodo == InitUUID /\ [][NextTodo]_vars

\* One window that shows the agenda, likewise: the agenda handlers.
NextAgenda ==
  \/ Lifecycle(1, {FullBrowser, FullDesktop, AgendaModule})
  \/ AgendaStep(1, AgendaForms)
  \/ PanelStep(1)

SpecAgenda == InitUUID /\ [][NextAgenda]_vars

\* One window under every launch URL: what it shows.
NextLaunch ==
  \/ Lifecycle(1, Queries)
  \/ PanelStep(1)

SpecLaunch == Init /\ [][NextLaunch]_vars

\* Two windows: the first under every launch URL, each split from the
\* other, and todos added in the second.
OneTodoForm == {[title |-> "Buy milk", time |-> "13:00", priority |-> DefaultPriority]}

NextSplit ==
  \/ Lifecycle(1, Queries)
  \/ PanelStep(1)
  \/ RunEffects(2)
  \/ CloseWindow(2)
  \/ \E w \in Wins : \E module \in ModuleNames : OpenModuleWindow(w, module)
  \/ \E form \in OneTodoForm : FillTodoForm(2, form)
  \/ AddTodo(2)

SpecSplit == InitUUID /\ [][NextSplit]_vars

\* Two windows on one store, each started, run through its effects and
\* closed at any time: in the first todos and agenda items are added and
\* the city is edited, in the second todos are added.
OneAgendaForm == {[title |-> "Standup", time |-> "09:00", location |-> ""]}

NextWindows ==
  \/ Lifecycle(1, {FullBrowser})
  \/ Lifecycle(2, {FullBrowser})
  \/ \E form \in OneTodoForm : FillTodoForm(1, form)
  \/ AddTodo(1)
  \/ \E form \in OneAgendaForm : FillAgendaForm(1, form)
  \/ AddAgenda(1)
  \/ CityStep(1)
  \/ \E form \in OneTodoForm : FillTodoForm(2, form)
  \/ AddTodo(2)

SpecWindows == InitDefault /\ [][NextWindows]_vars

\* The desktop window with its peek lists and its panel: the handlers of
\* the two lists.
PartTodoForms ==
  OneTodoForm \cup {[title |-> "Buy milk", time |-> "", priority |-> DefaultPriority]}
PartAgendaForms ==
  OneAgendaForm \cup {[title |-> "", time |-> "09:00", location |-> "Room 1"]}

NextPeek ==
  \/ Lifecycle(1, {FullDesktop})
  \/ TodoStep(1, PartTodoForms)
  \/ AgendaStep(1, PartAgendaForms)
  \/ PanelStep(1)
  \/ ClickInPanel(1)

SpecPeek == InitUUID /\ [][NextPeek]_vars

\* One window with its weather provider: the weather of the city, the
\* location by address, and the city edited by hand meanwhile.
WeatherStep(w) ==
  \/ \E f \in BagToSet(fetches[w]) : \E reply \in Replies : \E code \in ForecastCodes :
       FetchReply(w, f, reply, code)
  \/ LocateClick(w)
  \/ \E reply \in EndpointReplies : LocateReply(w, reply)
  \/ \E reply \in Replies : \E code \in ForecastCodes : LocateFetchReply(w, reply, code)

ProviderLifecycle(w, urls) ==
  \/ \E q \in urls : StartWindow(w, q)
  \/ RunAllEffects(w)
  \/ CloseWindow(w)

BoundedCityStep(w) ==
  \/ EditCity(w)
  \/ \E text \in CityTexts : CanFetch(w) /\ CommitCity(w, text)

NextWeather ==
  \/ ProviderLifecycle(1, {FullBrowser})
  \/ BoundedCityStep(1)
  \/ WeatherStep(1)

\* The weather codes that a forecast is taken to carry: all up to
\* MaxWmoCode, two below the codes of the table, and one far above it.
WmoCodes == ((0 - 2)..MaxWmoCode) \cup {999}

InitWmo == InitWith({EmptyStore}, WmoCodes) /\ hasRandomUUID

\* The texts that a reply is taken to carry: white space, then anything up
\* to the JSON or what is there in its place, then anything after it.
Pads == {<<>>, <<Space>>}

JunkBefore == {<<>>, <<W("garbage")>>, <<P("]")>>, <<P("}"), W("garbage")>>}

JsonCores ==
  {<<>>,
   <<W("null")>>,
   <<S("a")>>,
   <<P("["), P("]")>>,
   <<P("["), Space, S("a"), P(","), N(1), Space, P("]")>>,
   <<P("{"), S("a"), P(":"), N(1), P("}")>>,
   <<P("{"), S("a"), P(":"), P("["), P("]"), P("}")>>,
   <<P("{"), S("a"), P(":")>>,
   <<P("{"), S("a"), P(":"), N(1), P("}"), P("["), P("]")>>,
   <<P("["), N(1), P("}")>>}

JunkAfter == {<<>>, <<W("trailing")>>, <<P("[")>>, <<P("]")>>, <<W("trailing"), P("{")>>}

ReplyTexts ==
  {pad1 \o before \o core \o after \o pad2 :
     pad1 \in Pads, before \in JunkBefore, core \in JsonCores,
     after \in JunkAfter, pad2 \in Pads}

InitDecoder == InitAll({EmptyStore}, {0}, ReplyTexts, {<<>>}) /\ hasRandomUUID

\* return parseJsonLenient<T>(text), at the end of fetchJson.
DecodeReply ==
  /\ decoded = NoReport
  /\ decoded' = parseJsonLenient(rawText)
  /\ UNCHANGED <<rawText, wmoVars, descVars, weatherVars, shared, running,
                 query, pending, cityVars, todoVars, agendaVars, activePanel,
                 lastOp>>

SpecDecoder == InitDecoder /\ [][DecodeReply]_vars

\* The descriptions that a text report is taken to carry: none, one of
\* these phrases, or two of them, joined by nothing, a space, or a comma and
\* a space.
Phrases ==
  {<<"S", "u", "n", "n", "y">>,
   <<"C", "l", "e", "a", "r">>,
   <<"P", "a", "r", "t", "l", "y">>,
   <<"P", "a", "r", "t", "l", "y", " ", "c", "l", "o", "u", "d", "y">>,
   <<"c", "l", "o", "u", "d", "y", " ", "s", "k", "i", "e", "s">>,
   <<"C", "l", "o", "u", "d", "y">>,
   <<"O", "v", "e", "r", "c", "a", "s", "t">>,
   <<"P", "a", "t", "c", "h", "y", " ", "r", "a", "i", "n">>,
   <<"L", "i", "g", "h", "t", " ", "d", "r", "i", "z", "z", "l", "e">>,
   <<"R", "a", "i", "n", " ", "s", "h", "o", "w", "e", "r">>,
   <<"H", "e", "a", "v", "y", " ", "s", "n", "o", "w">>,
   <<"N", "i", "c", "e">>,
   <<"B", "l", "i", "z", "z", "a", "r", "d">>,
   <<"T", "h", "u", "n", "d", "e", "r", "y", " ", "o", "u", "t", "b", "r", "e", "a", "k", "s">>,
   <<"F", "r", "e", "e", "z", "i", "n", "g", " ", "f", "o", "g">>,
   <<"M", "i", "s", "t">>,
   <<"H", "a", "z", "e">>,
   <<"W", "i", "n", "d", "y">>}

Joints == {<<>>, <<" ">>, <<",", " ">>}

Descriptions ==
  {<<>>} \cup Phrases
  \cup {first \o joint \o second : first \in Phrases, joint \in Joints, second \in Phrases}

InitClassify == InitAll({EmptyStore}, {0}, {<<>>}, Descriptions) /\ hasRandomUUID

\* The description of the text report is classified.
ClassifyReport ==
  /\ classified = NoReport
  /\ classified' = classifyDesc(weatherDesc)
  /\ UNCHANGED <<weatherDesc, wmoVars, decoderVars, weatherVars, shared, running,
                 query, pending, cityVars, todoVars, agendaVars, activePanel,
                 lastOp>>

SpecClassify == InitClassify /\ [][ClassifyReport]_vars

\* mapWmoToWeather is applied to the weather code of the forecast.
MapCode ==
  /\ wmoWeather = NoReport
  /\ wmoWeather' = mapWmoToWeather(wmoCode)
  /\ UNCHANGED <<wmoCode, decoderVars, descVars, weatherVars, shared, running, query, pending,
                 cityVars, todoVars, agendaVars, activePanel, lastOp>>

SpecWmo == InitWmo /\ [][MapCode]_vars

\* Two windows on one store: in window 1 the user edits the city and the
\* weather provider is not followed; window 2 is followed through its
\* effects, its resolutions and its automatic locate.
NextTwoCity ==
  \/ StartWindow(1, FullBrowser)
  \/ RunEffects(1)
  \/ CityStep(1)
  \/ StartWindow(2, FullBrowser)
  \/ RunAllEffects(2)
  \/ \E f \in BagToSet(fetches[2]) : \E reply \in Replies : \E code \in ForecastCodes :
       FetchReply(2, f, reply, code)
  \/ \E reply \in EndpointReplies : LocateReply(2, reply)
  \/ \E reply \in Replies : \E code \in ForecastCodes : LocateFetchReply(2, reply, code)

SpecTwoCity == InitDefault /\ [][NextTwoCity]_vars

SpecWeather == InitDefault /\ [][NextWeather]_vars

\* The timer of the call that a fetchWeather(city) awaits fires.
TimerFires(w) ==
  \E f \in BagToSet(fetches[w]) : \E reply \in TimerReplies : \E code \in ForecastCodes :
    FetchReply(w, f, reply, code)

\* The same in the fetchWeather of locateWeather.
LocateTimerFires(w) ==
  \E reply \in TimerReplies : \E code \in ForecastCodes : LocateFetchReply(w, reply, code)

\* One window from its start on: its resolutions, its automatic locate and
\* the city edited meanwhile.
NextResolve ==
  \/ StartWindow(1, FullBrowser)
  \/ RunAllEffects(1)
  \/ BoundedCityStep(1)
  \/ \E f \in BagToSet(fetches[1]) : \E reply \in Replies : \E code \in ForecastCodes :
       FetchReply(1, f, reply, code)
  \/ \E reply \in EndpointReplies : LocateReply(1, reply)
  \/ \E reply \in Replies : \E code \in ForecastCodes : LocateFetchReply(1, reply, code)

\* The scheduling of the window: React runs the effects of a render, and
\* the timer of every fetchJson fires timeoutMs after the call, however
\* often the user acts meanwhile; no answer of the network is assumed.
SpecResolveFair ==
  /\ InitDefault
  /\ [][NextResolve]_vars
  /\ WF_vars(RunAllEffects(1))
  /\ SF_vars(TimerFires(1))
  /\ SF_vars(LocateTimerFires(1))

\* A store whose city is a string of blanks, or empty.
BlankCityStores ==
  {[key \in storageKeys |->
      IF key = "city" THEN saveStorage(JStr(blank)) ELSE NoItem] : blank \in {"", " "}}

InitBlankCity == InitFrom({EmptyStore} \cup BlankCityStores) /\ hasRandomUUID

\* One window from its start on, as in NextResolve, on a store that may
\* hold a blank city.
SpecBlankCity == InitBlankCity /\ [][NextResolve]_vars

\* One window from its start on, with the city edited at any time: a
\* fetchWeather of the effect may start while others are in flight.
NextOverlap ==
  \/ StartWindow(1, FullBrowser)
  \/ RunAllEffects(1)
  \/ CityStep(1)
  \/ \E f \in BagToSet(fetches[1]) : \E reply \in Replies : \E code \in ForecastCodes :
       FetchReply(1, f, reply, code)
  \/ \E reply \in EndpointReplies : LocateReply(1, reply)
  \/ \E reply \in Replies : \E code \in ForecastCodes : LocateFetchReply(1, reply, code)

SpecOverlap == InitDefault /\ [][NextOverlap]_vars

\* One window from its start on, as in NextResolve, on the empty store and
\* on a store with a city.
InitCity == InitFrom({EmptyStore, SavedStore}) /\ hasRandomUUID

SpecCity == InitCity /\ [][NextResolve]_vars

\* One window under every launch URL, on any store: what it loads.
InitLoad == InitFrom(InitialStores \cup {MisshapenStore})

SpecLoad == InitLoad /\ [][NextLaunch]_vars

(***************************************************************************)
(* Properties.                                                             *)
(***************************************************************************)
\* What the store holds under key, read as loadStorage reads it, and
\* NotStored when that is nothing or no JSON text.
NotStored == [t |-> "not stored"]
Stored(key) == loadStorage(store[key], NotStored)

Items(list) == list.a

\* C1: in one window, whenever an addTodo, toggleTodo or deleteTodo has been
\* handled to the end (its render and the save effect of that render), the
\* list stored under the todos key is the in-memory list: same items, same
\* field values, same order.
C1_StoredTodosMatch == Idle(1) => Stored("todos") = todos[1]

\* Of the two saved todos the first was deleted and the second toggled, a new
\* one was added, and the store holds that list.
C1_Witness ==
  /\ Idle(1)
  /\ Len(Items(todos[1])) = 2
  /\ Field(Items(todos[1])[1], "id") = JStr("old-2")
  /\ Field(Items(todos[1])[1], "done") = JBool(FALSE)
  /\ Field(Items(todos[1])[2], "id") = JStr("uuid-1")
  /\ Stored("todos") = todos[1]

\* The operations that change a stored value.
MutatingOps ==
  {"addTodo", "toggleTodo", "deleteTodo", "addAgenda", "deleteAgenda",
   "commitCity"}

\* C2 as stated: when a mutating operation returns, the store holds what the
\* window holds in memory; the write is part of the operation.
C2_WrittenBeforeReturn ==
  lastOp[1] \in MutatingOps =>
    \A key \in storageKeys : store[key] = saveStorage(Saved(1, key))

\* C2, amended: an operation changes the in-memory value only, and the save
\* effect of the render that follows writes it.  In every state of an open
\* window, each stored value whose save effect is not due is the in-memory
\* value; once the effects have run this is all four of them.
C2_WrittenByEffect ==
  running[1] =>
    \A key \in storageKeys \ pending[1] : store[key] = saveStorage(Saved(1, key))

\* addTodo has returned, the store still holds the list without the new
\* item, and the save effect of todos is due.
C2_Witness ==
  /\ lastOp[1] = "addTodo"
  /\ pending[1] = {"todos"}
  /\ store["todos"] # saveStorage(todos[1])
  /\ store["city"] = saveStorage(city[1])

\* C3 as stated: a window whose module parameter is none of time, weather,
\* todo and agenda shows what the window with that parameter resolved (to
\* null) shows, the full dashboard.
C3_UnknownModuleIsFullDashboard ==
  running[1] =>
    Visible(1) = Composition(getModuleFromUrl(query[1]), desktopMode(1),
                             activePanel[1])

\* C4: addTodo with an empty title or an empty time changes nothing: the
\* list, the store, the form and the rest of the window's state stay as they
\* are, no save effect becomes due and the window keeps running.
C4_IncompleteAddIsNoOp ==
  [][(AddTodo(1) /\ (todoForm[1].title = "" \/ todoForm[1].time = ""))
       => UNCHANGED <<store, todos, todoForm, pending, running, activePanel,
                      agendaVars, cityVars>>]_vars

\* addTodo was called with a title and no time, and the two saved todos are
\* all there is.
C4_Witness ==
  /\ lastOp[1] = "addTodoRejected"
  /\ todoForm[1].title = "Buy milk"
  /\ todoForm[1].time = ""
  /\ todos[1] = SavedTodos
  /\ Stored("todos") = SavedTodos

\* C5: addTodo with a title and a time makes the list one item longer; the
\* new item is the last, it has the form's title, time and priority and is
\* not done; the items that were there keep their fields and their places.
C5_AddAppendsOne ==
  [][(AddTodo(1) /\ todoForm[1].title # "" /\ todoForm[1].time # "")
       => LET old == Items(todos[1])
              new == Items(todos'[1])
          IN /\ Len(new) = Len(old) + 1
             /\ \A i \in 1..Len(old) : new[i] = old[i]
             /\ Field(new[Len(new)], "title") = JStr(todoForm[1].title)
             /\ Field(new[Len(new)], "time") = JStr(todoForm[1].time)
             /\ Field(new[Len(new)], "priority") = JStr(todoForm[1].priority)
             /\ Field(new[Len(new)], "done") = JBool(FALSE)]_vars

\* A high-priority todo has just been added behind the two saved ones.
C5_Witness ==
  /\ lastOp[1] = "addTodo"
  /\ Len(Items(todos[1])) = 3
  /\ SubSeq(Items(todos[1]), 1, 2) = Items(SavedTodos)
  /\ Field(Items(todos[1])[3], "priority") = JStr(HighPriority)
  /\ Field(Items(todos[1])[3], "done") = JBool(FALSE)

\* No two items of the list have the same id.
UniqueIds(list) ==
  \A i, j \in 1..Len(Items(list)) :
    Field(Items(list)[i], "id") = Field(Items(list)[j], "id") => i = j

\* C6 as stated: in an open window no two todos share an id, and no two
\* agenda items do.
C6_UniqueIds == running[1] => UniqueIds(todos[1]) /\ UniqueIds(agenda[1])

\* new is old with the done flag of item i flipped and nothing else touched.
DoneFlipped(old, new, i) ==
  /\ new[i].k = old[i].k
  /\ \A key \in {"id", "title", "time", "priority"} :
       Field(new[i], key) = Field(old[i], key)
  /\ Field(new[i], "done") \in {JBool(TRUE), JBool(FALSE)} \ {Field(old[i], "done")}

\* C7: toggleTodo(id) flips the done flag of the item whose id is id, and
\* leaves its other fields, every other item, the order and the length of the
\* list, and everything that is not the todo list as they were; with an id no
\* item has, the list's content is unchanged.
C7_ToggleFlipsTheMatch ==
  [][\A id \in IdArgs(todos[1]) :
       ToggleTodo(1, id) =>
         LET old == Items(todos[1])
             new == Items(todos'[1])
         IN /\ Len(new) = Len(old)
            /\ \A i \in 1..Len(old) :
                 IF Field(old[i], "id") = JStr(id)
                 THEN DoneFlipped(old, new, i)
                 ELSE new[i] = old[i]
            /\ (id \notin Ids(todos[1]) => todos'[1] = todos[1])
            /\ UNCHANGED <<store, todoForm, agendaVars, cityVars, activePanel>>]_vars

\* The first saved todo has just been toggled to done, the second is as it
\* was saved.
C7_Witness ==
  /\ lastOp[1] = "toggleTodo"
  /\ Len(Items(todos[1])) = 2
  /\ Items(todos[1])[1] = TodoItem("old-1", "Buy milk", "13:00", HighPriority, TRUE)
  /\ Items(todos[1])[2] = Items(SavedTodos)[2]

\* new is old without the items whose id is id: the others are all there,
\* unchanged and in the order they had.
Removed(old, new, id) ==
  LET keep == {i \in 1..Len(old) : Field(old[i], "id") # JStr(id)}
  IN /\ Len(new) = Cardinality(keep)
     /\ \A i \in keep : new[Cardinality({j \in keep : j <= i})] = old[i]

\* C8: deleteTodo(id) and deleteAgenda(id) remove the item whose id is id
\* from their list and keep every other item, with its fields, in the order
\* the items had; the other list is not touched.
C8_DeleteRemovesTheMatch ==
  [][/\ \A id \in IdArgs(todos[1]) :
          DeleteTodo(1, id) =>
            /\ Removed(Items(todos[1]), Items(todos'[1]), id)
            /\ agenda' = agenda
     /\ \A id \in IdArgs(agenda[1]) :
          DeleteAgenda(1, id) =>
            /\ Removed(Items(agenda[1]), Items(agenda'[1]), id)
            /\ todos' = todos]_vars

\* The second of three todos has just been deleted, the first saved one and
\* the new one are left in that order, and the saved agenda item was deleted
\* before.
C8_Witness ==
  /\ lastOp[1] = "deleteTodo"
  /\ Len(Items(todos[1])) = 2
  /\ Items(todos[1])[1] = Items(SavedTodos)[1]
  /\ Field(Items(todos[1])[2], "title") = JStr("Buy milk")
  /\ Field(Items(todos[1])[2], "id") # JStr("old-2")
  /\ agenda[1] = JArr(<<>>)

\* C9: addAgenda with an empty title or an empty time changes neither the
\* agenda nor the store; with both it appends one item with the form's title
\* and time whose location is the form's, or '待定' when the form's is empty.
C9_AddAgendaDefaultsLocation ==
  [][AddAgenda(1) =>
       LET form == agendaForm[1]
           old == Items(agenda[1])
           new == Items(agenda'[1])
       IN IF form.title = "" \/ form.time = ""
          THEN agenda' = agenda /\ store' = store /\ pending' = pending
          ELSE /\ Len(new) = Len(old) + 1
               /\ \A i \in 1..Len(old) : new[i] = old[i]
               /\ Field(new[Len(new)], "title") = JStr(form.title)
               /\ Field(new[Len(new)], "time") = JStr(form.time)
               /\ Field(new[Len(new)], "location") =
                    (IF form.location = "" THEN JStr(PendingLocation)
                     ELSE JStr(form.location))]_vars

\* An agenda item has just been added from a form without a location, and
\* its location is '待定'.
C9_Witness ==
  /\ lastOp[1] = "addAgenda"
  /\ Len(Items(agenda[1])) = 2
  /\ Field(Items(agenda[1])[2], "title") = JStr("Standup")
  /\ Field(Items(agenda[1])[2], "location") = JStr(PendingLocation)

\* What loadStorage falls back to for each key.
Fallback(key) ==
  CASE key = "todos" -> JArr(<<>>)
    [] key = "agenda" -> JArr(<<>>)
    [] key = "city" -> JStr(DefaultCity)
    [] key = "cityMode" -> JStr("auto")

\* C10: for the todos, the agenda and the city a window holds, saving the
\* value and loading the entry that leaves, as a window does when it starts,
\* gives the value back: the same items with the same fields in the same
\* order, the same city.
C10_RoundTrip ==
  running[1] =>
    \A key \in {"todos", "agenda", "city"} :
      loadStorage(saveStorage(Saved(1, key)), Fallback(key)) = Saved(1, key)

\* A window has just started and holds the city, the todo and the agenda
\* item that a window before it had committed, added and saved.
C10_Witness ==
  /\ lastOp[1] = "start"
  /\ city[1] = JStr("zh:beijing")
  /\ "uuid-1" \in Ids(todos[1])
  /\ "uuid-2" \in Ids(agenda[1])
  /\ Len(Items(todos[1])) = 3

\* C11 as stated: whatever the store holds, an open window holds an array of
\* todos, an array of agenda items, a city string and the mode auto or manual.
C11_LoadedWellFormed ==
  running[1] =>
    /\ IsArr(todos[1])
    /\ IsArr(agenda[1])
    /\ IsStr(city[1])
    /\ cityMode[1] \in {JStr("auto"), JStr("manual")}

(***************************************************************************)
(* The weather provider.                                                   *)
(***************************************************************************)
Called(r, call) == \E i \in DOMAIN r.calls : r.calls[i] = call

PrimaryFailed(r) == r.failed \cap {"geocode", "forecast"} # {}

\* The calls of fetchWeather of window w that await a network call.
InFlight(w) ==
  BagToSet(fetches[w])
    \cup (IF locating[w].phase = "fetch" THEN {fetchOf(locating[w])} ELSE {})

\* C12 as stated: a resolution that has ended asked the text report exactly
\* when the geocode or the forecast failed, and it ended in failure only
\* after the text report was asked and failed.
C12_FailureOnlyAfterSecondary ==
  resolved[1] # NoReport =>
    /\ Called(resolved[1], "wttr") <=> PrimaryFailed(resolved[1])
    /\ ~resolved[1].ok =>
         Called(resolved[1], "wttr") /\ "wttr" \in resolved[1].failed

\* C12, amended: the same for a resolution of a city that is not empty after
\* normalisation, while it runs and when it has ended; a resolution of an
\* empty city ends in failure with no network call at all.
C12_SecondaryIffPrimaryFailed ==
  /\ \A f \in InFlight(1) :
       /\ f.city # ""
       /\ Called(f, "wttr") <=> PrimaryFailed(f)
       /\ Called(f, "forecast") => f.calls[1] = "geocode"
  /\ (resolved[1] # NoReport /\ resolved[1].city # "") =>
       /\ Called(resolved[1], "wttr") <=> PrimaryFailed(resolved[1])
       /\ resolved[1].ok <=> "wttr" \notin resolved[1].failed
       /\ ~resolved[1].ok => Called(resolved[1], "wttr")
  /\ (resolved[1] # NoReport /\ resolved[1].city = "") =>
       resolved[1].calls = <<>> /\ ~resolved[1].ok

\* The forecast failed, the text report was asked and failed too.
C12_Witness ==
  /\ resolved[1] # NoReport
  /\ resolved[1].calls = <<"geocode", "forecast", "wttr">>
  /\ resolved[1].failed = {"forecast", "wttr"}
  /\ ~resolved[1].ok
  /\ weatherStatus[1] = "error"

\* A call of fetchWeather of window 1 ends in failure with this step.
FailsNow == running[1] /\ resolved'[1] # NoReport /\ ~resolved'[1].ok

\* C13: the step that ends a resolution in failure sets the status to error
\* and leaves the WeatherInfo, the city and the city mode as they were; the
\* WeatherInfo changes with no other step of a running window than the one
\* that ends a resolution in success.
C13_FailureKeepsWeatherInfo ==
  [][/\ FailsNow =>
          /\ weatherStatus'[1] = "error"
          /\ weather'[1] = weather[1]
          /\ city'[1] = city[1]
          /\ cityMode'[1] = cityMode[1]
     /\ (running[1] /\ running'[1] /\ weather'[1] # weather[1]) =>
          (resolved'[1] # NoReport /\ resolved'[1].ok)]_vars

\* Both paths have failed for the city, the status is error, and the
\* WeatherInfo of an earlier resolution is still held.
C13_Witness ==
  /\ resolved[1] # NoReport
  /\ resolved[1].failed = {"geocode", "wttr"}
  /\ weatherStatus[1] = "error"
  /\ weather[1] # JNull

(***************************************************************************)
(* locateWeather.                                                          *)
(***************************************************************************)
\* The endpoints asked are the first ones of ipEndpoints, in their order.
InOrder(tried) ==
  /\ Len(tried) \in 1..NumEndpoints
  /\ \A i \in DOMAIN tried : tried[i] = i

\* C14: a call of locateWeather asks the endpoints in their order; it ends
\* in failure only when all of them were asked, whatever made each of them
\* fail; it ends at the first endpoint whose city has its weather resolved,
\* and the window then holds that city, its weather and the mode auto.
C14_EndpointsInOrder ==
  /\ locating[1] # NoLocate => InOrder(locating[1].tried)
  /\ located[1] # NoReport =>
       /\ InOrder(located[1].tried)
       /\ locating[1] = NoLocate
       /\ ~isLocating[1]
       /\ ~located[1].ok => Len(located[1].tried) = NumEndpoints
       /\ located[1].ok =>
            /\ city[1] = JStr(located[1].city)
            /\ cityMode[1] = JStr("auto")
            /\ resolved[1] # NoReport
            /\ resolved[1].ok
            /\ resolved[1].city = located[1].city
            /\ weather[1] # JNull
            /\ weather[1].city = located[1].city

\* The first two endpoints failed and the third gave the city that the
\* window now holds.
C14_Witness ==
  /\ located[1] # NoReport
  /\ located[1].ok
  /\ located[1].tried = <<1, 2, 3>>
  /\ city[1] = JStr("zh:guangzhou")
  /\ cityMode[1] = JStr("auto")

\* C15 as stated: a call of locateWeather that ends with every endpoint
\* failed leaves the state as it was at its start.  Taken for the calls that
\* start while no other resolution is in flight and during which the user
\* commits no other city, so that nothing else has touched the state.
C15_FailedLocateLeavesState ==
  (/\ located[1] # NoReport
   /\ ~located[1].ok
   /\ located[1].before # NoReport
   /\ located[1].before.city = city[1]
   /\ located[1].before.cityMode = cityMode[1]) =>
    located[1].before = Snapshot(1, weatherStatus[1])

\* locateWeather is called by the effect with this step.
AutoLocateStarts ==
  /\ running'[1]
  /\ locating[1] = NoLocate
  /\ locating'[1] # NoLocate
  /\ locating'[1].by = "effect"

\* C16: the effect calls locateWeather only while the city mode is auto and
\* only when it has not called it before in this window, and autoLocates
\* counts these calls: no window has more than one.
C16_AutoLocateOnce ==
  [][/\ AutoLocateStarts =>
          /\ cityMode[1] = JStr("auto")
          /\ autoLocates[1] = 0
          /\ autoLocates'[1] = 1
     /\ (running[1] /\ running'[1] /\ ~AutoLocateStarts) =>
          autoLocates'[1] = autoLocates[1]
     /\ autoLocates'[1] <= 1]_vars

\* The one automatic call has committed its city with the mode auto, the
\* effect has run again for that city and has started no second call.
C16_Witness ==
  /\ Idle(1)
  /\ autoLocates[1] = 1
  /\ city[1] = JStr("zh:guangzhou")
  /\ cityMode[1] = JStr("auto")
  /\ BagIn(Fetch("zh:guangzhou"), fetches[1])
  /\ locating[1] = NoLocate
  /\ store["city"] = saveStorage(JStr("zh:guangzhou"))

\* The step is an action of the user on the city: the commit of an edit, or
\* the end of a call of locateWeather that the user started with the button.
UserSetsCity ==
  \/ lastOp'[1] = "commitCity"
  \/ located'[1] # NoReport /\ located'[1].by = "click"

\* C17 as stated: while the city mode is manual, the city and the mode
\* change with an action of the user only; a call of locateWeather that the
\* effect started changes neither.
C17_ManualCityKept ==
  [][(/\ running[1]
      /\ running'[1]
      /\ cityMode[1] = JStr("manual")
      /\ ~UserSetsCity) =>
       (city'[1] = city[1] /\ cityMode'[1] = cityMode[1])]_vars

(***************************************************************************)
(* The stored city and city mode.                                          *)
(***************************************************************************)
\* C18 as stated, in its weakest reading for two windows: when no save
\* effect is due, the stored city and the stored city mode are the city and
\* the mode of one of the windows.
C18_StoredPairIsOnePreference ==
  (Idle(1) /\ Idle(2)) =>
    \E w \in Wins :
      /\ store["city"] = saveStorage(city[w])
      /\ store["cityMode"] = saveStorage(cityMode[w])

(***************************************************************************)
(* mapWmoToWeather.                                                        *)
(***************************************************************************)
\* C19 as stated: code 0 is mapped to '晴' (clear), code 61 to '雨' (rain)
\* and code 999 to '多云' (partly cloudy), the text of the last return.
C19_ThreeCodes ==
  wmoWeather # NoReport =>
    /\ wmoCode = 0 => wmoWeather = Condition("zh:qing", "sun")
    /\ wmoCode = 61 => wmoWeather = Condition("zh:yu", "cloud with rain")
    /\ wmoCode = 999 => wmoWeather = Condition("zh:duoyun", "sun behind cloud")

\* C19, amended: code 0 is mapped to '晴' and code 61 to '雨'; code 999 is
\* one of the codes from 95 on and is mapped to '雷暴' (thunderstorm); the
\* last return, '多云', is that of a code in no range, as 58 is.
C19_ThreeCodesAmended ==
  wmoWeather # NoReport =>
    /\ wmoCode = 0 => wmoWeather = Condition("zh:qing", "sun")
    /\ wmoCode = 61 => wmoWeather = Condition("zh:yu", "cloud with rain")
    /\ wmoCode = 999 =>
         wmoWeather = Condition("zh:leibao", "cloud with lightning and rain")
    /\ wmoCode = 58 => wmoWeather = Condition("zh:duoyun", "sun behind cloud")

\* Code 999 has been mapped.
C19_Witness == wmoCode = 999 /\ wmoWeather # NoReport

\* The text that the range rules give a code.
RangeRule(code) ==
  CASE code = 0 -> "zh:qing"
    [] code = 1 -> "zh:dabuqinglang"
    [] code = 2 -> "zh:duoyun"
    [] code = 3 -> "zh:yin"
    [] code \in {45, 48} -> "zh:wu"
    [] code \in 51..57 -> "zh:maomaoyu"
    [] code \in 61..67 -> "zh:yu"
    [] code \in 71..77 -> "zh:xue"
    [] code \in 80..82 -> "zh:zhenyu"
    [] code \in 85..86 -> "zh:zhenxue"
    [] code >= 95 -> "zh:leibao"
    [] OTHER -> "zh:duoyun"

\* C20: every integer code is mapped to a text and an icon, and the text is
\* the one of the range rules.
C20_RangeRules ==
  wmoWeather # NoReport =>
    /\ DOMAIN wmoWeather = {"text", "icon"}
    /\ wmoWeather.text = RangeRule(wmoCode)

\* Code 57, the last of the light rain codes, has been mapped.
C20_Witness == wmoCode = 57 /\ wmoWeather # NoReport /\ wmoWeather.text = "zh:maomaoyu"

(***************************************************************************)
(* parseJsonLenient.                                                       *)
(***************************************************************************)
Opening(text) == {i \in DOMAIN text : text[i] \in {P("{"), P("[")}}

Closing(text, from) ==
  {i \in DOMAIN text : i >= from /\ text[i] \in {P("}"), P("]")}}

Least(set) == CHOOSE i \in set : \A j \in set : i <= j

Greatest(set) == CHOOSE i \in set : \A j \in set : i >= j

\* The span from the earliest opening bracket of text to the latest closing
\* bracket at or after it.
BracketSpan(text) ==
  SubSeq(text, Least(Opening(text)),
         Greatest(Closing(text, Least(Opening(text)))))

\* C21: the decoder returns the strict parse of a text that is valid JSON;
\* of any other text it returns the parse of the span from the earliest
\* opening bracket to the latest closing bracket at or after it, and it
\* reports InvalidJson when there is no opening bracket, no closing bracket
\* at or after it, or the span does not parse.
C21_LenientDecoder ==
  decoded # NoReport =>
    LET text == TrimText(rawText) IN
    IF JsonParseText(text).ok THEN decoded = Decoded(JsonParseText(text).v)
    ELSE IF Opening(text) = {} THEN decoded = InvalidJson
    ELSE IF Closing(text, Least(Opening(text))) = {} THEN decoded = InvalidJson
    ELSE IF JsonParseText(BracketSpan(text)).ok
         THEN decoded = Decoded(JsonParseText(BracketSpan(text)).v)
    ELSE decoded = InvalidJson

\* garbage{"a":1}trailing has been decoded to {"a":1}.
C21_Witness ==
  /\ rawText = <<W("garbage"), P("{"), S("a"), P(":"), N(1), P("}"), W("trailing")>>
  /\ decoded = Decoded(JObj(<<"a">>, <<JNum(1)>>))

(***************************************************************************)
(* The end of every resolution.                                            *)
(***************************************************************************)
\* C22: a running window whose weather status is loading comes to the
\* status ready or error (or is closed), and whenever calls of fetchWeather
\* are in flight one of them ends, also when the network never answers.
C22_ResolutionsEnd ==
  /\ (running[1] /\ weatherStatus[1] = "loading")
        ~> (~running[1] \/ weatherStatus[1] \in {"ready", "error"})
  /\ (InFlight(1) # {}) ~> (InFlight(1) = {} \/ resolved[1] # NoReport)

\* The resolution of the effect and the one of locateWeather are in flight
\* together and the status is loading.
C22_Witness ==
  /\ running[1]
  /\ weatherStatus[1] = "loading"
  /\ fetches[1] # EmptyBag
  /\ locating[1].phase = "fetch"

\* What window w holds in memory.
Memory(w) ==
  <<running[w], query[w], city[w], cityMode[w], isEditingCity[w], todos[w],
    todoForm[w], agenda[w], agendaForm[w], activePanel[w], weather[w],
    weatherStatus[w]>>

\* Window v is started by this step, with what the store holds.
StartsFromStore(v) ==
  /\ ~running[v] /\ running'[v]
  /\ todos'[v] = loadStorage(store["todos"], JArr(<<>>))
  /\ agenda'[v] = loadStorage(store["agenda"], JArr(<<>>))
  /\ city'[v] = loadStorage(store["city"], JStr(DefaultCity))
  /\ cityMode'[v] = loadStorage(store["cityMode"], JStr("auto"))

\* C23: a split of a module from a window starts the other window under a
\* URL with desktop=1 and module=<that module>, so that the new window is in
\* desktop mode and resolves to that module; it starts from the store and
\* not from what the first window holds, the first window is left as it
\* was, and no step changes what two windows hold.
C23_SplitLaunch ==
  [][(\A w \in Wins : \A module \in ModuleNames :
        OpenModuleWindow(w, module) =>
          \E v \in Wins \ {w} :
            /\ query'[v] = [desktop |-> "1", module |-> module]
            /\ query'[v].desktop = "1" /\ getModuleFromUrl(query'[v]) = module
            /\ StartsFromStore(v)
            /\ Memory(w)' = Memory(w)
            /\ store' = store)
     /\ (\A w \in Wins : Memory(w)' # Memory(w) =>
           \A v \in Wins \ {w} : Memory(v)' = Memory(v))]_vars

\* Window 2 is a module window split from window 1, which is a module
\* window of another module and holds other todos than the store.
C23_Witness ==
  /\ running[1] /\ running[2] /\ lastOp[2] = "start"
  /\ Truthy(moduleView(1)) /\ Truthy(moduleView(2))
  /\ moduleView(1) # moduleView(2)
  /\ desktopMode(2)
  /\ todos[1] # todos[2]

\* The value under key that window w would begin with had another window
\* persisted value.
Persisted(w, key) == store[key] = saveStorage(Saved(w, key))

\* C24: a window that starts begins with the todos, the agenda, the city
\* and the city mode the store holds, which are those of a running window
\* wherever that window's save effect wrote the entry; and a step that
\* writes the store changes nothing a window holds in memory.
C24_StartFromPersisted ==
  [][(\A v \in Wins : (~running[v] /\ running'[v]) =>
        /\ StartsFromStore(v)
        /\ \A w \in Wins \ {v} : \A key \in storageKeys :
             (Idle(w) /\ Persisted(w, key)) => Saved(v, key)' = Saved(w, key))
     /\ (store' # store => \A w \in Wins : Memory(w)' = Memory(w))]_vars

\* Window 2 has started after window 1 added a todo and an agenda item and
\* set the city, all persisted, and holds what window 1 holds.
C24_Witness ==
  /\ Idle(1) /\ running[2] /\ lastOp[2] = "start"
  /\ IsArr(todos[1]) /\ Len(todos[1].a) > 0
  /\ IsArr(agenda[1]) /\ Len(agenda[1].a) > 0
  /\ cityMode[1] = JStr("manual") /\ city[1] = JStr("zh:beijing")
  /\ \A key \in storageKeys : Persisted(1, key) /\ Saved(2, key) = Saved(1, key)

\* The card of a module.
CardOf(module) ==
  CASE module = "time" -> "timeCard"
    [] module = "weather" -> "weatherCard"
    [] module = "todo" -> "todoCard"
    [] module = "agenda" -> "agendaCard"

\* The module identity of a window: the module its launch parameter
\* names, and none (null) for an absent or any other value.
ModuleIdentity(w) == getModuleFromUrl(query[w])

\* C25 as stated: a window whose module identity is time, weather, todo or
\* agenda shows that module's card and nothing else, with or without
\* desktop=1, and a window shows the close-window button exactly when its
\* module identity is not none.
C25_SingleModuleViews ==
  \A w \in Wins : (running[w] /\ ~renderThrows(w)) =>
    /\ ModuleIdentity(w) \in ModuleNames => Visible(w) = {CardOf(ModuleIdentity(w))}
    /\ closeButtons(moduleView(w), desktopMode(w), activePanel[w]) # {}
          <=> ModuleIdentity(w) # QNull

\* The part of C25 about the windows of the four modules, and the close
\* button by the parameter as the render reads it.
C25_ModuleWindows ==
  \A w \in Wins : (running[w] /\ ~renderThrows(w)) =>
    /\ ModuleIdentity(w) \in ModuleNames =>
          /\ Visible(w) = {CardOf(ModuleIdentity(w))}
          /\ closeButtons(moduleView(w), desktopMode(w), activePanel[w]) = Visible(w)
    /\ ~Truthy(moduleView(w)) =>
          closeButtons(moduleView(w), desktopMode(w), activePanel[w]) = {}

\* The last item of a list and the one before it, as far as there are
\* any.
TwoLast(seq) ==
  IF Len(seq) = 0 THEN <<>>
  ELSE IF Len(seq) = 1 THEN <<seq[1]>>
  ELSE <<seq[Len(seq)], seq[Len(seq) - 1]>>

\* After an add to a list the first row is the new item, and the second the
\* item that was the last before.
NewestFirst(before, rows, id) ==
  /\ Len(rows) > 0 /\ Field(rows[1], "id") = JStr(id)
  /\ Len(before) > 0 => (Len(rows) = 2 /\ rows[2] = before[Len(before)])

\* C26: in the desktop window each peek list shows min(2, n) rows of a
\* list of n items, the last item first and the one before it second, after
\* every step; after an add the first row is the item just added.
C26_PeekLists ==
  [][\A w \in Wins : ({"todoPeek", "agendaPeek"} \subseteq Visible(w)') =>
       /\ todoPeekRows(w)' = TwoLast(todos'[w].a)
       /\ agendaPeekRows(w)' = TwoLast(agenda'[w].a)
       /\ Len(todoPeekRows(w)') = (IF Len(todos'[w].a) < 2 THEN Len(todos'[w].a) ELSE 2)
       /\ Len(agendaPeekRows(w)') = (IF Len(agenda'[w].a) < 2 THEN Len(agenda'[w].a) ELSE 2)
       /\ (idCount' # idCount /\ todos'[w] # todos[w]) =>
            NewestFirst(todos[w].a, todoPeekRows(w)', createId)
       /\ (idCount' # idCount /\ agenda'[w] # agenda[w]) =>
            NewestFirst(agenda[w].a, agendaPeekRows(w)', createId)]_vars

\* The desktop window after a delete from a todo list of three items, with
\* an agenda of two or more.
C26_Witness ==
  /\ running[1] /\ {"todoPeek", "agendaPeek"} \subseteq Visible(1)
  /\ lastOp[1] = "deleteTodo"
  /\ Len(todos[1].a) = 2 /\ Len(agenda[1].a) >= 2
  /\ idCount = 2

\* The lists and the forms of window w.
ListsAndForms(w) == <<todos[w], todoForm[w], agenda[w], agendaForm[w]>>

\* C27: the panel of a window is closed, todo or agenda; it is opened, or
\* changed to the other list, only by a peek row, a peek header's + button
\* or a dock button; a click on the overlay or on the close button closes
\* it and a click inside the panel leaves it open; an add that adds, in
\* desktop mode, closes it; an add with no title or no time leaves the
\* panel, the forms and the lists as they were.
C27_OverlayPanel ==
  [][\A w \in Wins :
       /\ activePanel'[w] \in {QNull, "todo", "agenda"}
       /\ (activePanel'[w] \notin {QNull, activePanel[w]}) =>
            /\ running[w] /\ {"todoPeek", "agendaPeek", "dock"} \subseteq Visible(w)
            /\ \E panel \in {"todo", "agenda"} : OpenPanel(w, panel)
       /\ ClosePanel(w) => (activePanel[w] # QNull /\ activePanel'[w] = QNull)
       /\ ClickInPanel(w) => (activePanel[w] # QNull /\ activePanel'[w] = activePanel[w])
       /\ (idCount' # idCount /\ desktopMode(w) /\ ListsAndForms(w)' # ListsAndForms(w)) =>
            activePanel'[w] = QNull
       /\ (AddTodo(w) /\ (todoForm[w].title = "" \/ todoForm[w].time = "")) =>
            (activePanel'[w] = activePanel[w] /\ ListsAndForms(w)' = ListsAndForms(w))
       /\ (AddAgenda(w) /\ (agendaForm[w].title = "" \/ agendaForm[w].time = "")) =>
            (activePanel'[w] = activePanel[w] /\ ListsAndForms(w)' = ListsAndForms(w))]_vars

\* The todo panel is open after an add with a title and no time.
C27_Witness ==
  /\ running[1] /\ desktopMode(1) /\ activePanel[1] = "todo"
  /\ lastOp[1] = "addTodoRejected"
  /\ todoForm[1].title # "" /\ todoForm[1].time = ""
  /\ idCount > 0

\* The keyword groups in their order, with the text and the icon of each.
KeywordGroups ==
  <<[words |-> {Keywords.sunny, Keywords.clear}, as |-> Condition("zh:qing", "sun")],
    [words |-> {Keywords.partlyCloudy}, as |-> Condition("zh:duoyun", "sun behind cloud")],
    [words |-> {Keywords.cloudy, Keywords.overcast}, as |-> Condition("zh:yin", "cloud")],
    [words |-> {Keywords.rain, Keywords.drizzle, Keywords.shower}, as |-> Condition("zh:yu", "cloud with rain")],
    [words |-> {Keywords.snow, Keywords.ice, Keywords.blizzard}, as |-> Condition("zh:xue", "cloud with snow")],
    [words |-> {Keywords.thunder},
     as |-> Condition("zh:leibao", "cloud with lightning and rain")],
    [words |-> {Keywords.fog, Keywords.mist, Keywords.haze}, as |-> Condition("zh:wu", "fog")]>>

\* The groups of which the lower-cased description holds a keyword.
Matching(value) ==
  {g \in 1..Len(KeywordGroups) :
     \E word \in KeywordGroups[g].words : includes(toLowerCase(value), word)}

\* C28: the description is classified as the earliest keyword group of
\* which its lower-cased text holds a keyword, and as '多云' when it holds
\* none.
C28_FirstGroupWins ==
  classified # NoReport =>
    IF Matching(weatherDesc) = {}
    THEN classified = Condition("zh:duoyun", "sun behind cloud")
    ELSE \E g \in Matching(weatherDesc) :
           /\ \A h \in Matching(weatherDesc) : g <= h
           /\ classified = KeywordGroups[g].as

\* 'Partly cloudy, Thundery outbreaks' holds keywords of three groups and is
\* classified as '多云'.
C28_Witness ==
  /\ classified = Condition("zh:duoyun", "sun behind cloud")
  /\ Matching(weatherDesc) = {2, 3, 6}

\* The effect of [city, cityMode] of window w runs in this step, and the
\* city is a string that is empty after trimming.
EffectOnBlankCity(w) ==
  /\ running[w] /\ pending[w] \cap {"city", "cityMode"} # {} /\ pending'[w] = {}
  /\ IsStr(city[w]) /\ Trim(city[w].s) = ""

\* An endpoint answers the locateWeather of window w with a city that is
\* empty after trimming.
LocateOnBlankCity(w) ==
  \E reply \in EndpointReplies :
    /\ reply.ok /\ reply.city # "" /\ Trim(reply.city) = ""
    /\ LocateReply(w, reply)

\* C29: a call of fetchWeather with a city that is empty after trimming, by
\* the effect or by locateWeather, ends in the same step with the status
\* error, with no network call of fetchWeather in flight that was not there
\* before (those of the effect, and the one inside locateWeather),
\* and with the WeatherInfo, the city and the city mode as they were.
C29_EmptyCityFailsAtOnce ==
  [][\A w \in Wins : (EffectOnBlankCity(w) \/ LocateOnBlankCity(w)) =>
       /\ weatherStatus'[w] = "error"
       /\ fetches'[w] = fetches[w]
       /\ locating'[w].phase = "fetch" => locating'[w] = locating[w]
       /\ weather'[w] = weather[w]
       /\ city'[w] = city[w]
       /\ cityMode'[w] = cityMode[w]]_vars

\* The window held a WeatherInfo when the call for the empty city failed.
C29_Witness ==
  /\ running[1] /\ resolved[1] = EmptyCityResolution
  /\ weatherStatus[1] = "error" /\ weather[1] # JNull

\* The ids of the items the store holds under key.
StoredIds(entries, key) == Ids(loadStorage(entries[key], JArr(<<>>)))

\* C30 as stated, where no window deletes: an item that the store holds,
\* added and persisted by a window, is in the store after every step,
\* whatever the other window, whose copy may be older than the add, changes
\* or writes back after its start.
C30_PersistedItemsStay ==
  [][\A key \in {"todos", "agenda"} :
       StoredIds(store, key) \subseteq StoredIds(store', key)]_vars

\* Both windows have added a todo to their own copy and persisted it; the
\* store holds the todo of the window that wrote last.
C30_LostItem ==
  /\ Idle(1) /\ Idle(2)
  /\ Ids(todos[1]) = {"uuid-1"} /\ Ids(todos[2]) = {"uuid-2"}
  /\ StoredIds(store, "todos") = {"uuid-2"}

\* Window w is at rest with its weather: the effect of the last change of
\* the city has run, no call of fetchWeather is in flight, and the status is
\* ready.
WeatherAtRest(w) ==
  /\ running[w] /\ pending[w] = {}
  /\ InFlight(w) = {}
  /\ weatherStatus[w] = "ready"

\* C31 as stated: a window at rest with its weather holds the WeatherInfo of
\* its city: weather.city is the normalized city.
C31_WeatherOfCurrentCity ==
  \A w \in Wins : (WeatherAtRest(w) /\ IsStr(city[w])) =>
    /\ weather[w] # JNull
    /\ weather[w].city = normalizeCityName(city[w].s)

\* The window is at rest with the city the user set and the weather of the
\* city it started with.
C31_StaleWeather ==
  /\ WeatherAtRest(1)
  /\ city[1] = JStr("zh:beijing") /\ cityMode[1] = JStr("manual")
  /\ weather[1] # JNull /\ weather[1].city = DefaultCity

\* The user commits an edit of the city that is blank.
BlankCommit(w) ==
  \E text \in CityTexts : Trim(text) = "" /\ CommitCity(w, text)

\* C32: the city of a window that started from the default city or from a
\* stored city with characters is never the empty string; the commit of a
\* blank edit leaves the city as it was and sets the mode to manual; an
\* endpoint's city that is blank after trimming is not committed.
C32_CityNeverEmpty ==
  [][\A w \in Wins :
       /\ running'[w] => (IsStr(city'[w]) /\ city'[w].s # "")
       /\ BlankCommit(w) => (city'[w] = city[w] /\ cityMode'[w] = JStr("manual"))
       /\ LocateOnBlankCity(w) => (city'[w] = city[w] /\ cityMode'[w] = cityMode[w])]_vars

\* The city that the locate committed is kept by the commit of a blank
\* edit.
C32_Witness ==
  /\ running[1] /\ lastOp[1] = "commitCity"
  /\ city[1] = JStr("zh:guangzhou") /\ cityMode[1] = JStr("manual")

==============================================================================
